---------------------------- MODULE Spec2Model ----------------------------
(***************************************************************************)
(* A model of aiogram_test_framework: the capture store (RequestCapture),  *)
(* the substitute transport (MockSession / MockBot), the id counters of    *)
(* the factories, the session facade (TestClient) and the simulated user   *)
(* (TestUser).                                                             *)
(*                                                                         *)
(* Conventions.  An Optional[T] value is a sequence of length 0 (None) or  *)
(* 1 (the value).  A str is a sequence of tokens, so that substring,       *)
(* concatenation and emptiness are computed rather than assumed.  A dict   *)
(* is a function whose DOMAIN is its key set.  Timestamps (datetime.now()) *)
(* are not part of the state: nothing in the program reads them back.      *)
(***************************************************************************)
EXTENDS Integers, Sequences, FiniteSets, TLC

\* ------------------------------------------------------------------ bounds
MaxCapture == 3     \* longest capture store explored
MaxUsers == 2       \* TestUser objects created on the client
MaxQueue == 2       \* values ever enqueued with set_next_dice_value
MaxIds == 2         \* ids a factory counter issues between two resets
MaxCalls == 2       \* bot API calls one handler makes during one delivery
MaxResponseIds == 2 \* response ids the transport stamps between two counter resets

\* ------------------------------------------------------ program constants
UserIdBase == 100000
IdBase == 1
ResponseIdBase == 1
PlaceholderBotId == 123456

\* ------------------------------------------------------------ input sets
BotIds == {123456}
Texts == {<<"h", "i">>, <<"i">>}
Needles == {<<"h">>, <<"i">>}
Commands == {<<"s", "t">>}
ArgsInputs == {<<>>, <<"i">>}
CallbackData == {<<"c", "b">>}
ChatIds == {UserIdBase, UserIdBase + 1}
DiceInputs == {2, 6}
Handlers == {"none", "echo", "free"}

None == <<>>
Some(x) == <<x>>

\* RequestType, src/aiogram_test_framework/types.py
RequestTypeValues ==
    {"sendMessage", "editMessageText", "editMessageReplyMarkup",
     "deleteMessage", "forwardMessage", "copyMessage",
     "sendPhoto", "sendVideo", "sendAudio", "sendDocument", "sendSticker",
     "sendAnimation", "sendVoice", "sendVideoNote", "sendMediaGroup",
     "sendDice", "sendLocation", "sendContact", "sendPoll",
     "sendChatAction",
     "answerCallbackQuery", "answerInlineQuery",
     "getChat", "getChatMember", "banChatMember", "unbanChatMember",
     "restrictChatMember",
     "getMe", "getMyCommands", "setMyCommands",
     "other"}

SEND_MESSAGE == "sendMessage"
SEND_DICE == "sendDice"
RequestType_OTHER == "other"

\* dict.get(key, default)
Get(params, key, default) ==
    IF key \in DOMAIN params THEN params[key] ELSE default

\* CapturedRequest.chat_id: params.get("chat_id"), an Optional[int]
chat_id_of(r) ==
    IF "chat_id" \in DOMAIN r.params THEN Some(r.params["chat_id"]) ELSE None

\* CapturedRequest.text: params.get("text"), an Optional[str]
text_of(r) ==
    IF "text" \in DOMAIN r.params THEN Some(r.params["text"]) ELSE None

\* Python's `needle in hay` for str
Contains(hay, needle) ==
    \E i \in 0..(Len(hay) - Len(needle)) :
        SubSeq(hay, i + 1, i + Len(needle)) = needle

\* Python's str(n) for n >= 0, as a sequence of digit tokens
Digit(d) == <<"0", "1", "2", "3", "4", "5", "6", "7", "8", "9">>[d + 1]

RECURSIVE Str(_)
Str(n) == IF n < 10 THEN <<Digit(n)>> ELSE Str(n \div 10) \o <<Digit(n % 10)>>


\* Python's seq[n:] for 0 <= n
SliceFrom(seq, n) == SubSeq(seq, n + 1, Len(seq))

\* ------------------------------------------------------------- variables
VARIABLES
    requests,                   \* RequestCapture._requests
    session_message_id_counter, \* MockSession._message_id_counter
    next_dice_values,           \* MockSession._next_dice_values
    bot_user,                   \* MockBot._bot_user
    user_id_counter,            \* UserFactory._user_id_counter
    message_id_counter,         \* MessageFactory._message_id_counter
    callback_id_counter,        \* CallbackQueryFactory._callback_id_counter
    update_id_counter,          \* UpdateFactory._update_id_counter
    issued,                     \* history: ids each counter issued since its last reset
    users,                      \* the TestUser objects made by create_user
    dispatcher,                 \* TestClient._dispatcher: the handlers registered on it
    delivery,                   \* the send_* call in flight, if any
    suspended,                  \* send_* calls of other tasks, suspended at an await in a handler
    lifecycle,                  \* startup / shutdown emissions and configuration callback calls
    held,                       \* the list objects the test got from all_requests and kept
    second,                     \* a second TestClient of the same process: its capture and transport
    rebound,                    \* the users whose _client was changed to the second client
    last                        \* the operation that completed last, with what it returned

vars == <<requests, session_message_id_counter, next_dice_values, bot_user,
          user_id_counter, message_id_counter, callback_id_counter,
          update_id_counter, issued, users, dispatcher, delivery, suspended,
          lifecycle, held, second, rebound, last>>

transport_vars == <<requests, session_message_id_counter, next_dice_values>>
engine_vars == <<suspended, lifecycle>>
test_vars == <<held, second, rebound>>
factory_vars == <<user_id_counter, message_id_counter, callback_id_counter,
                  update_id_counter, issued>>

\* ------------------------------------------------------- capture store
\* a store that puts the new request first
add_front(reqs, request) == <<request>> \o reqs

\* a store that overwrites its newest entry
add_overwrite(reqs, request) ==
    IF reqs = <<>> THEN <<request>> ELSE [reqs EXCEPT ![Len(reqs)] = request]

\* RequestCapture.add
add(reqs, request) == Append(reqs, request)

\* a clear that drops only the newest entry
clear_newest(reqs) == IF reqs = <<>> THEN reqs ELSE SubSeq(reqs, 1, Len(reqs) - 1)

\* RequestCapture.clear
clear(reqs) == <<>>

\* RequestCapture.all_requests: list(self._requests)
all_requests(reqs) == reqs

\* an all_requests that hands out the store's own list: `return self._requests`
all_requests_object_shared(reqs) == [shared |-> TRUE, items |-> <<>>]

\* the list object RequestCapture.all_requests returns: list(self._requests)
\* is a new list holding the store's items, not the store's own list
all_requests_object(reqs) == [shared |-> FALSE, items |-> all_requests(reqs)]

\* the items a list object holds, given the store's own list
items_of(list, reqs) == IF list.shared THEN reqs ELSE list.items

\* RequestCapture.__len__
capture_len(reqs) == Len(reqs)

\* a selection that stops at the first request of the type
get_by_type_first(reqs, request_type) ==
    LET found == SelectSeq(reqs, LAMBDA r : r.request_type = request_type)
    IN  IF found = <<>> THEN <<>> ELSE <<found[1]>>

\* RequestCapture.get_by_type
get_by_type(reqs, request_type) ==
    SelectSeq(reqs, LAMBDA r : r.request_type = request_type)

\* a query that ignores its chat filter
get_sent_messages_unfiltered(reqs, chat_id) ==
    SelectSeq(reqs, LAMBDA r : r.request_type = SEND_MESSAGE)

\* RequestCapture.get_sent_messages; chat_id is an Optional[int]
get_sent_messages(reqs, chat_id) ==
    LET messages == get_by_type(reqs, SEND_MESSAGE)
    IN  IF chat_id # None
        THEN SelectSeq(messages, LAMBDA m : chat_id_of(m) = chat_id)
        ELSE messages

\* RequestCapture.has_message_containing
has_message_containing(reqs, text, chat_id) ==
    LET messages == get_sent_messages(reqs, chat_id)
    IN  \E i \in 1..Len(messages) :
            /\ text_of(messages[i]) # None
            /\ text_of(messages[i])[1] # <<>>
            /\ Contains(text_of(messages[i])[1], text)

\* RequestCapture.get_edited_messages
get_edited_messages(reqs, chat_id) ==
    LET messages == get_by_type(reqs, "editMessageText")
    IN  IF chat_id # None
        THEN SelectSeq(messages, LAMBDA m : chat_id_of(m) = chat_id)
        ELSE messages

\* a filter tested for truth: `if chat_id:` instead of `if chat_id is not None:`
get_deleted_messages_truthy_filter(reqs, chat_id) ==
    LET messages == get_by_type(reqs, "deleteMessage")
    IN  IF chat_id # None /\ chat_id[1] # 0
        THEN SelectSeq(messages, LAMBDA m : chat_id_of(m) = chat_id)
        ELSE messages

\* RequestCapture.get_deleted_messages
get_deleted_messages(reqs, chat_id) ==
    LET messages == get_by_type(reqs, "deleteMessage")
    IN  IF chat_id # None
        THEN SelectSeq(messages, LAMBDA m : chat_id_of(m) = chat_id)
        ELSE messages

\* RequestCapture.get_callback_answers
get_callback_answers(reqs) == get_by_type(reqs, "answerCallbackQuery")

\* RequestCapture.get_dice_sends
get_dice_sends(reqs, chat_id) ==
    LET messages == get_by_type(reqs, SEND_DICE)
    IN  IF chat_id # None
        THEN SelectSeq(messages, LAMBDA m : chat_id_of(m) = chat_id)
        ELSE messages

\* a query that answers with the oldest sent message
get_last_message_oldest(reqs, chat_id) ==
    LET messages == get_sent_messages(reqs, chat_id)
    IN  IF messages # <<>> THEN Some(messages[1]) ELSE None

\* RequestCapture.get_last_message: messages[-1] if messages else None
get_last_message(reqs, chat_id) ==
    LET messages == get_sent_messages(reqs, chat_id)
    IN  IF messages # <<>> THEN Some(messages[Len(messages)]) ELSE None

\* RequestCapture.get_last_request: self._requests[-1] if self._requests else None
get_last_request(reqs) ==
    IF reqs # <<>> THEN Some(reqs[Len(reqs)]) ELSE None

\* RequestCapture.count_by_type
count_by_type(reqs, request_type) == Len(get_by_type(reqs, request_type))

\* ----------------------------------------------------------- transport
\* a classification without the fallback
method_to_request_type_no_fallback(method_name) == method_name

\* MockSession._method_to_request_type
method_to_request_type(method_name) ==
    IF method_name \in RequestTypeValues THEN method_name ELSE RequestType_OTHER

\* a counter that is read but not advanced
get_next_message_id_reused(counter) ==
    [msg_id |-> counter, counter |-> counter]

\* MockSession._get_next_message_id: the id returned and the counter afterwards
get_next_message_id(counter) ==
    [msg_id |-> counter, counter |-> counter + 1]

\* the ranges random.randint draws from in MockSession._get_next_dice_value
dice_value_range(emoji) ==
    IF emoji \in {"basketball", "football"} THEN 1..5
    ELSE IF emoji = "slot_machine" THEN 1..64
    ELSE 1..6

\* a queue served newest-first
get_next_dice_value_newest(queue, emoji) ==
    IF queue # <<>>
    THEN {[value |-> queue[Len(queue)], queue |-> SubSeq(queue, 1, Len(queue) - 1)]}
    ELSE {[value |-> v, queue |-> queue] : v \in dice_value_range(emoji)}

\* MockSession._get_next_dice_value: every (value, queue afterwards) it can give
get_next_dice_value(queue, emoji) ==
    IF queue # <<>>
    THEN {[value |-> Head(queue), queue |-> Tail(queue)]}
    ELSE {[value |-> v, queue |-> queue] : v \in dice_value_range(emoji)}

\* a queue that takes the new value at its head
set_next_dice_value_front(queue, value) == <<value>> \o queue

\* MockSession.set_next_dice_value
set_next_dice_value(queue, value) == Append(queue, value)

True == [kind |-> "bool", value |-> TRUE]

\* a transport that answers True to every call
generate_response_always_true(method_name, params, counter, queue, bot) ==
    {[response |-> True, counter |-> counter, queue |-> queue]}

\* MockSession._generate_response: every outcome
\* [response, counter afterwards, dice queue afterwards]
generate_response(method_name, params, counter, queue, bot) ==
    IF method_name = "getMe"
    THEN {[response |-> bot, counter |-> counter, queue |-> queue]}
    ELSE IF method_name \in {"sendMessage", "editMessageText"}
    THEN {[response |->
              [kind |-> "Message",
               message_id |-> get_next_message_id(counter).msg_id,
               chat |-> [id |-> Get(params, "chat_id", 0), type |-> "private"],
               text |-> Get(params, "text", <<>>),
               from_user |-> bot],
           counter |-> get_next_message_id(counter).counter,
           queue |-> queue]}
    ELSE IF method_name = "deleteMessage"
    THEN {[response |-> True, counter |-> counter, queue |-> queue]}
    ELSE IF method_name = "answerCallbackQuery"
    THEN {[response |-> True, counter |-> counter, queue |-> queue]}
    ELSE IF method_name = "sendDice"
    THEN {[response |->
              [kind |-> "Message",
               message_id |-> get_next_message_id(counter).msg_id,
               chat |-> [id |-> Get(params, "chat_id", 0), type |-> "private"],
               dice |-> [emoji |-> Get(params, "emoji", "dice"), value |-> d.value],
               from_user |-> bot],
           counter |-> get_next_message_id(counter).counter,
           queue |-> d.queue]
          : d \in get_next_dice_value(queue, Get(params, "emoji", "dice"))}
    ELSE IF method_name = "sendPhoto"
    THEN {[response |->
              [kind |-> "Message",
               message_id |-> get_next_message_id(counter).msg_id,
               chat |-> [id |-> Get(params, "chat_id", 0), type |-> "private"],
               photo |-> <<[file_id |-> "test", file_unique_id |-> "test",
                            width |-> 100, height |-> 100]>>,
               caption |-> IF "caption" \in DOMAIN params
                           THEN Some(params["caption"]) ELSE None,
               from_user |-> bot],
           counter |-> get_next_message_id(counter).counter,
           queue |-> queue]}
    ELSE IF method_name = "getChatMember"
    THEN {[response |->
              [kind |-> "ChatMemberMember",
               user |-> [id |-> Get(params, "user_id", 1), is_bot |-> FALSE,
                         first_name |-> "TestUser"]],
           counter |-> counter, queue |-> queue]}
    ELSE IF method_name = "getChat"
    THEN {[response |-> [kind |-> "Chat", id |-> Get(params, "chat_id", 0),
                         type |-> "private"],
           counter |-> counter, queue |-> queue]}
    ELSE {[response |-> True, counter |-> counter, queue |-> queue]}

\* CapturedRequest(request_type, params, response) as make_request builds it
CapturedRequest(method_name, params, response) ==
    [request_type |-> method_to_request_type(method_name),
     params |-> params,
     response |-> response]

\* MockSession.make_request with outcome o of _generate_response:
\* the response is recorded in the capture store and returned
make_request(method_name, params, o) ==
    /\ requests' = add(requests, CapturedRequest(method_name, params, o.response))
    /\ session_message_id_counter' = o.counter
    /\ next_dice_values' = o.queue


\* ------------------------------------------------------------ factories
\* a non-empty Optional[str]: the truth value Python gives `x` in `x or ...`, `if x:`
Truthy(opt) == opt # None /\ opt[1] # <<>>

\* f"test_user_{id}"
default_username(id) == <<"test_user_">> \o Str(id)

\* a counter incremented whether or not an id was given
UserFactory_create_always_counted(user_id, first_name, last_name, username, counter) ==
    LET id == IF user_id = None THEN counter ELSE user_id[1]
    IN  [user |-> [kind |-> "User", id |-> id, is_bot |-> FALSE,
                   first_name |-> first_name, last_name |-> last_name,
                   username |-> IF username = None
                                THEN Some(<<"test_user_">> \o Str(id)) ELSE username],
         counter |-> counter + 1]

\* a counter incremented before it is read
UserFactory_create_incremented_first(user_id, first_name, last_name, username, counter) ==
    LET id == IF user_id = None THEN counter + 1 ELSE user_id[1]
    IN  [user |-> [kind |-> "User", id |-> id, is_bot |-> FALSE,
                   first_name |-> first_name, last_name |-> last_name,
                   username |-> IF username = None
                                THEN Some(<<"test_user_">> \o Str(id)) ELSE username],
         counter |-> IF user_id = None THEN counter + 1 ELSE counter]

\* UserFactory.create: the User built and the counter afterwards
UserFactory_create(user_id, first_name, last_name, username, counter) ==
    LET id == IF user_id = None THEN counter ELSE user_id[1]
    IN  [user |-> [kind |-> "User",
                   id |-> id,
                   is_bot |-> FALSE,
                   first_name |-> first_name,
                   last_name |-> last_name,
                   username |-> IF username = None
                                THEN Some(default_username(id)) ELSE username],
         counter |-> IF user_id = None THEN counter + 1 ELSE counter]

\* ChatFactory.create_private
ChatFactory_create_private(chat_id, first_name, last_name, username) ==
    [kind |-> "Chat",
     id |-> chat_id,
     type |-> "private",
     first_name |-> first_name,
     last_name |-> last_name,
     username |-> IF Truthy(username)
                  THEN username ELSE Some(default_username(chat_id))]

\* ChatFactory.create_private_from_user
ChatFactory_create_private_from_user(user) ==
    ChatFactory_create_private(user.id, user.first_name, user.last_name,
                               user.username)

\* a message that is given chat 0 when none is passed
MessageFactory_create_chat_zero(text, from_user, chat, message_id, counter) ==
    [message |->
        [kind |-> "Message",
         message_id |-> IF message_id = None THEN counter ELSE message_id[1],
         chat |-> IF chat = None
                  THEN ChatFactory_create_private(0, from_user.first_name,
                           from_user.last_name, from_user.username)
                  ELSE chat[1],
         from_user |-> from_user,
         text |-> text],
     counter |-> IF message_id = None THEN counter + 1 ELSE counter]

\* MessageFactory.create: the Message built and the counter afterwards
MessageFactory_create(text, from_user, chat, message_id, counter) ==
    [message |->
        [kind |-> "Message",
         message_id |-> IF message_id = None THEN counter ELSE message_id[1],
         chat |-> IF chat = None
                  THEN ChatFactory_create_private(from_user.id,
                           from_user.first_name, from_user.last_name,
                           from_user.username)
                  ELSE chat[1],
         from_user |-> from_user,
         text |-> text],
     counter |-> IF message_id = None THEN counter + 1 ELSE counter]

\* ChatFactory.create_group
ChatFactory_create_group(chat_id, title) ==
    [kind |-> "Chat", id |-> chat_id, type |-> "group", title |-> title]

\* the four forward-origin variants, each with the fields it requires
MessageOriginUser(sender_user) ==
    [type |-> "user", sender_user |-> sender_user]
MessageOriginHiddenUser(sender_user_name) ==
    [type |-> "hidden_user", sender_user_name |-> sender_user_name]
MessageOriginChat(sender_chat, author_signature) ==
    [type |-> "chat", sender_chat |-> sender_chat,
     author_signature |-> author_signature]
MessageOriginChannel(chat, message_id, author_signature) ==
    [type |-> "channel", chat |-> chat, message_id |-> message_id,
     author_signature |-> author_signature]

\* the forward-variant message builder: a text message of from_user, with an
\* id from the message counter, stamped with the origin
MessageFactory_create_forwarded(text, from_user, forward_origin, chat, counter) ==
    LET m == MessageFactory_create(text, from_user, chat, None, counter)
    IN  [message |->
            [kind |-> "Message",
             message_id |-> m.message.message_id,
             chat |-> m.message.chat,
             from_user |-> m.message.from_user,
             text |-> m.message.text,
             forward_origin |-> forward_origin],
         counter |-> m.counter]

\* the text MessageFactory.create_command formats: f"/{command}" [+ f" {args}"]
command_text(command, args) ==
    IF Truthy(args) THEN <<"/">> \o command \o <<" ">> \o args[1]
    ELSE <<"/">> \o command

\* MessageFactory.create_command
MessageFactory_create_command(command, from_user, args, chat, message_id, counter) ==
    MessageFactory_create(command_text(command, args), from_user, chat,
                          message_id, counter)

\* a range that is 1..6 whatever the emoji
MessageFactory_get_dice_value_range_six(emoji) == [min_val |-> 1, max_val |-> 6]

\* MessageFactory._get_dice_value_range: (min_val, max_val)
MessageFactory_get_dice_value_range(emoji) ==
    IF emoji \in {"basketball", "football"} THEN [min_val |-> 1, max_val |-> 5]
    ELSE IF emoji = "slot_machine" THEN [min_val |-> 1, max_val |-> 64]
    ELSE [min_val |-> 1, max_val |-> 6]

\* MessageFactory._get_random_dice_value: every value random.randint can give
MessageFactory_get_random_dice_value(emoji) ==
    LET r == MessageFactory_get_dice_value_range(emoji)
    IN  r.min_val .. r.max_val

\* MessageFactory._validate_dice_value: the exception it raises, if any
MessageFactory_validate_dice_value(value, emoji) ==
    LET r == MessageFactory_get_dice_value_range(emoji)
    IN  IF ~(r.min_val <= value /\ value <= r.max_val)
        THEN Some("ValueError") ELSE None

\* MessageFactory.create_dice: every outcome, the exception raised or the
\* Message built, with the counter afterwards.  The id is taken from the
\* counter before the value is looked at.
MessageFactory_create_dice(from_user, value, emoji, chat, message_id, counter) ==
    LET id == IF message_id = None THEN counter ELSE message_id[1]
        after == IF message_id = None THEN counter + 1 ELSE counter
        in_chat == IF chat = None
                   THEN ChatFactory_create_private(from_user.id,
                            from_user.first_name, from_user.last_name,
                            from_user.username)
                   ELSE chat[1]
        built(v) == [kind |-> "Message", message_id |-> id, chat |-> in_chat,
                     from_user |-> from_user,
                     dice |-> [emoji |-> emoji, value |-> v]]
    IN  IF value = None
        THEN {[raised |-> None, message |-> Some(built(v)), counter |-> after]
              : v \in MessageFactory_get_random_dice_value(emoji)}
        ELSE IF MessageFactory_validate_dice_value(value[1], emoji) # None
        THEN {[raised |-> MessageFactory_validate_dice_value(value[1], emoji),
               message |-> None, counter |-> after]}
        ELSE {[raised |-> None, message |-> Some(built(value[1])),
               counter |-> after]}

\* the sender of the placeholder message CallbackQueryFactory.create makes
PlaceholderBot ==
    [kind |-> "User", id |-> PlaceholderBotId, is_bot |-> TRUE,
     first_name |-> "TestBot", last_name |-> None, username |-> None]

\* a create that builds the placeholder message whether or not one was given
CallbackQueryFactory_create_placeholder_always(data, from_user, message, callback_id, cb_counter, msg_counter) ==
    LET placeholder ==
            MessageFactory_create(<<"Button message">>, PlaceholderBot,
                Some(ChatFactory_create_private(from_user.id,
                         from_user.first_name, Some("User"), None)),
                None, msg_counter)
    IN  [callback_query |->
            [kind |-> "CallbackQuery",
             id |-> IF callback_id = None THEN Str(cb_counter) ELSE callback_id[1],
             from_user |-> from_user,
             chat_instance |-> "test_instance",
             message |-> IF message = None THEN placeholder.message ELSE message[1],
             data |-> data],
         cb_counter |-> IF callback_id = None THEN cb_counter + 1 ELSE cb_counter,
         msg_counter |-> placeholder.counter]

\* CallbackQueryFactory.create: the CallbackQuery built and both counters afterwards
CallbackQueryFactory_create(data, from_user, message, callback_id, cb_counter, msg_counter) ==
    LET placeholder ==
            MessageFactory_create(<<"Button message">>, PlaceholderBot,
                Some(ChatFactory_create_private(from_user.id,
                         from_user.first_name, Some("User"), None)),
                None, msg_counter)
    IN  [callback_query |->
            [kind |-> "CallbackQuery",
             id |-> IF callback_id = None THEN Str(cb_counter) ELSE callback_id[1],
             from_user |-> from_user,
             chat_instance |-> "test_instance",
             message |-> IF message = None THEN placeholder.message ELSE message[1],
             data |-> data],
         cb_counter |-> IF callback_id = None THEN cb_counter + 1 ELSE cb_counter,
         msg_counter |-> IF message = None THEN placeholder.counter ELSE msg_counter]

\* UpdateFactory.create_message_update
UpdateFactory_create_message_update(message, update_id, counter) ==
    [update |-> [kind |-> "Update",
                 update_id |-> IF update_id = None THEN counter ELSE update_id[1],
                 message |-> Some(message),
                 callback_query |-> None],
     counter |-> IF update_id = None THEN counter + 1 ELSE counter]

\* UpdateFactory.create_callback_update
UpdateFactory_create_callback_update(callback_query, update_id, counter) ==
    [update |-> [kind |-> "Update",
                 update_id |-> IF update_id = None THEN counter ELSE update_id[1],
                 message |-> None,
                 callback_query |-> Some(callback_query)],
     counter |-> IF update_id = None THEN counter + 1 ELSE counter]

\* UpdateFactory.from_dice: every outcome; an exception of create_dice leaves
\* from_dice before create_message_update is reached
UpdateFactory_from_dice(from_user, value, emoji, chat, msg_counter, upd_counter) ==
    {IF m.raised # None
     THEN [raised |-> m.raised, update |-> None,
           msg_counter |-> m.counter, upd_counter |-> upd_counter]
     ELSE LET u == UpdateFactory_create_message_update(m.message[1], None,
                                                       upd_counter)
          IN  [raised |-> None, update |-> Some(u.update),
               msg_counter |-> m.counter, upd_counter |-> u.counter]
     : m \in MessageFactory_create_dice(from_user, value, emoji, chat, None,
                                        msg_counter)}

\* a reset that leaves the user counter alone
UserFactory_reset_counter_kept == user_id_counter

\* a reset that leaves the update counter alone
UpdateFactory_reset_counter_skipped == update_id_counter

\* X.reset_counter() of the four factories
UserFactory_reset_counter == UserIdBase
MessageFactory_reset_counter == IdBase
CallbackQueryFactory_reset_counter == IdBase
UpdateFactory_reset_counter == IdBase


\* MockBot.reset_message_counter: the value it stores in the counter
reset_message_counter == ResponseIdBase

\* ------------------------------------------- the application under test
Call(method_name, params) == [method_name |-> method_name, params |-> params]

\* the bot API calls test code and handlers make on the client's bot
ClientCalls ==
    {Call("sendMessage", [chat_id |-> c, text |-> <<"h", "i">>]) : c \in ChatIds}
    \cup {Call("deleteMessage", [chat_id |-> UserIdBase, message_id |-> 1])}

\* default_handler of the tests' dispatcher: message.answer(f"You said: {message.text}")
echo_call(message) ==
    Call("sendMessage", [chat_id |-> message.chat.id,
                         text |-> <<"You said: ">> \o message.text])

\* the calls the registered handlers can make next, given those already made
handler_calls(handler, update, made) ==
    IF handler = "free"
    THEN IF Len(made) < MaxCalls THEN ClientCalls ELSE {}
    ELSE IF handler = "echo"
    THEN IF update.message # None /\ made = <<>>
         THEN {echo_call(update.message[1])} ELSE {}
    ELSE {}

\* feed_update may return: the handlers have run to completion
handler_done(handler, update, made) ==
    handler = "free" \/ handler_calls(handler, update, made) = {}

\* ------------------------------------------------------------------ Init
Idle == [pc |-> "idle"]
NoIds == [user |-> <<>>, message |-> <<>>, callback |-> <<>>, update |-> <<>>]

\* MockBot.__init__: the bot identity
BotUser(bot_id) ==
    [kind |-> "User", id |-> bot_id, is_bot |-> TRUE, first_name |-> "Test Bot",
     last_name |-> None, username |-> Some(<<"test_bot">>)]

\* setup.create_test_dispatcher: a dispatcher with no handler registered
create_test_dispatcher == [handler |-> "none"]

\* the configuration callbacks a test passes to TestClient.create: none, or a
\* function that registers the named handler on the dispatcher it is given
SetupFuncs == {None} \cup {Some(h) : h \in Handlers \ {"none"}}

\* a construction that runs the configuration callback even when none is given
create_always_configured(bot_id, dispatcher_arg, setup_dispatcher_func) ==
    LET bot == BotUser(bot_id)
        d == IF dispatcher_arg = None THEN create_test_dispatcher
             ELSE dispatcher_arg[1]
    IN  [bot_user |-> bot,
         dispatcher |-> IF setup_dispatcher_func # None
                        THEN [d EXCEPT !.handler = setup_dispatcher_func[1]]
                        ELSE d,
         setup_calls |-> <<[bot |-> bot, dispatcher |-> d]>>,
         startups |-> 0]

\* a construction that emits the dispatcher's startup event itself
create_emitting_startup(bot_id, dispatcher_arg, setup_dispatcher_func) ==
    LET bot == BotUser(bot_id)
        d == IF dispatcher_arg = None THEN create_test_dispatcher
             ELSE dispatcher_arg[1]
    IN  [bot_user |-> bot,
         dispatcher |-> IF setup_dispatcher_func # None
                        THEN [d EXCEPT !.handler = setup_dispatcher_func[1]]
                        ELSE d,
         setup_calls |-> IF setup_dispatcher_func # None
                         THEN <<[bot |-> bot, dispatcher |-> d]>>
                         ELSE <<>>,
         startups |-> 1]

\* TestClient.create: the bot, the dispatcher the client keeps, the calls
\* made to the configuration callback, each with the arguments it was given,
\* and the number of times it emitted the dispatcher's startup event
create(bot_id, dispatcher_arg, setup_dispatcher_func) ==
    LET bot == BotUser(bot_id)
        d == IF dispatcher_arg = None THEN create_test_dispatcher
             ELSE dispatcher_arg[1]
    IN  [bot_user |-> bot,
         dispatcher |-> IF setup_dispatcher_func # None
                        THEN [d EXCEPT !.handler = setup_dispatcher_func[1]]
                        ELSE d,
         setup_calls |-> IF setup_dispatcher_func # None
                         THEN <<[bot |-> bot, dispatcher |-> d]>>
                         ELSE <<>>,
         startups |-> 0]

\* no second TestClient has been created
NoClient == [created |-> FALSE]

\* the state after TestClient.create(..., setup_dispatcher_func) in a fresh process
Init ==
    /\ requests = <<>>
    /\ session_message_id_counter = ResponseIdBase
    /\ next_dice_values = <<>>
    /\ user_id_counter = UserIdBase
    /\ message_id_counter = IdBase
    /\ callback_id_counter = IdBase
    /\ update_id_counter = IdBase
    /\ issued = NoIds
    /\ users = <<>>
    /\ \E b \in BotIds, f \in SetupFuncs :
          LET c == create(b, None, f)
          IN  /\ bot_user = c.bot_user
              /\ dispatcher = c.dispatcher
              /\ lifecycle = [ctx |-> "created", startups |-> c.startups,
                              shutdowns |-> 0,
                              setup_func |-> f, setup_calls |-> c.setup_calls]
    /\ delivery = Idle
    /\ suspended = <<>>
    /\ held = <<>>
    /\ second = NoClient
    /\ rebound = {}
    /\ last = [op |-> "create"]

\* --------------------------------------------------------------- actions
\* TestClient.create_user(user_id=user_id)
create_user(user_id) ==
    /\ delivery.pc = "idle"
    /\ Len(users) < MaxUsers
    /\ user_id = None => user_id_counter < UserIdBase + MaxIds
    /\ LET r == UserFactory_create(user_id, "Test", Some("User"), None,
                                   user_id_counter)
       IN  /\ users' = Append(users,
                  [user |-> r.user,
                   chat |-> ChatFactory_create_private_from_user(r.user)])
           /\ user_id_counter' = r.counter
           /\ issued' = IF user_id = None
                        THEN [issued EXCEPT !.user = Append(@, r.user.id)]
                        ELSE issued
    /\ last' = [op |-> "create_user"]
    /\ UNCHANGED <<transport_vars, bot_user, message_id_counter,
                   callback_id_counter, update_id_counter, dispatcher, delivery,
                   engine_vars,
                   test_vars>>

\* a delivery that takes the whole capture store for its own
Started_from_zero(op, update) ==
    [pc |-> "feed_update", op |-> op, initial_count |-> 0,
     update |-> update, made |-> <<>>, before |-> requests,
     after_reset |-> (last.op = "reset"),
     overlapped |-> (suspended # <<>>)]

\* the delivery record a send_* call starts with
Started(op, update) ==
    [pc |-> "feed_update", op |-> op, initial_count |-> capture_len(requests),
     update |-> update, made |-> <<>>, before |-> requests,
     after_reset |-> (last.op = "reset"),
     overlapped |-> (suspended # <<>>)]

\* TestClient.send_message(text, from_user, chat) up to the await of feed_update
send_message(text, from_user, chat) ==
    /\ delivery.pc = "idle"
    /\ message_id_counter < IdBase + MaxIds
    /\ update_id_counter < IdBase + MaxIds
    /\ LET m == MessageFactory_create(text, from_user, chat, None,
                                      message_id_counter)
           u == UpdateFactory_create_message_update(m.message, None,
                                                    update_id_counter)
       IN  /\ delivery' = Started("send_message", u.update)
           /\ message_id_counter' = m.counter
           /\ update_id_counter' = u.counter
           /\ issued' = [issued EXCEPT
                            !.message = Append(@, m.message.message_id),
                            !.update = Append(@, u.update.update_id)]
    /\ last' = [op |-> "from_text"]
    /\ UNCHANGED <<transport_vars, bot_user, user_id_counter,
                   callback_id_counter, users, dispatcher, engine_vars,
                   test_vars>>

\* TestClient.send_command(command, from_user, args, chat) up to the await
send_command(command, from_user, args, chat) ==
    /\ delivery.pc = "idle"
    /\ message_id_counter < IdBase + MaxIds
    /\ update_id_counter < IdBase + MaxIds
    /\ LET m == MessageFactory_create_command(command, from_user, args, chat,
                                              None, message_id_counter)
           u == UpdateFactory_create_message_update(m.message, None,
                                                    update_id_counter)
       IN  /\ delivery' = Started("send_command", u.update)
           /\ message_id_counter' = m.counter
           /\ update_id_counter' = u.counter
           /\ issued' = [issued EXCEPT
                            !.message = Append(@, m.message.message_id),
                            !.update = Append(@, u.update.update_id)]
    /\ last' = [op |-> "from_command"]
    /\ UNCHANGED <<transport_vars, bot_user, user_id_counter,
                   callback_id_counter, users, dispatcher, engine_vars,
                   test_vars>>

\* TestClient.send_callback(data, from_user, message) up to the await
send_callback(data, from_user, message) ==
    /\ delivery.pc = "idle"
    /\ callback_id_counter < IdBase + MaxIds
    /\ update_id_counter < IdBase + MaxIds
    /\ message = None => message_id_counter < IdBase + MaxIds
    /\ LET c == CallbackQueryFactory_create(data, from_user, message, None,
                    callback_id_counter, message_id_counter)
           u == UpdateFactory_create_callback_update(c.callback_query, None,
                                                     update_id_counter)
       IN  /\ delivery' = Started("send_callback", u.update)
           /\ callback_id_counter' = c.cb_counter
           /\ message_id_counter' = c.msg_counter
           /\ update_id_counter' = u.counter
           /\ issued' = [issued EXCEPT
                            !.callback = Append(@, c.callback_query.id),
                            !.message = IF message = None
                                        THEN Append(@, c.callback_query.message.message_id)
                                        ELSE @,
                            !.update = Append(@, u.update.update_id)]
    /\ last' = [op |-> "from_callback"]
    /\ UNCHANGED <<transport_vars, bot_user, user_id_counter, users, dispatcher,
                   engine_vars,
                   test_vars>>

\* what make_request leaves in `last`
Intercepted(call, o) ==
    [op |-> "make_request", method_name |-> call.method_name,
     params |-> call.params, response |-> o.response,
     queued |-> (next_dice_values # <<>>)]

\* a handler running inside dispatcher.feed_update calls the bot API
handler_request ==
    /\ delivery.pc = "feed_update"
    /\ capture_len(requests) < MaxCapture
    /\ \E call \in handler_calls(dispatcher.handler, delivery.update, delivery.made) :
       \E o \in generate_response(call.method_name, call.params,
                   session_message_id_counter, next_dice_values, bot_user) :
          /\ o.counter <= ResponseIdBase + MaxResponseIds
          /\ make_request(call.method_name, call.params, o)
          /\ delivery' = [delivery EXCEPT !.made =
                 Append(@, CapturedRequest(call.method_name, call.params, o.response))]
          /\ last' = Intercepted(call, o)
    /\ UNCHANGED <<bot_user, factory_vars, users, dispatcher, engine_vars,
                   test_vars>>

\* a return of the whole capture store
returned_requests_all(reqs, initial_count) == all_requests(reqs)

\* return self._capture.all_requests[initial_count:]
returned_requests(reqs, initial_count) ==
    SliceFrom(all_requests(reqs), initial_count)

\* feed_update returns and send_* returns the slice
send_return ==
    /\ delivery.pc = "feed_update"
    /\ handler_done(dispatcher.handler, delivery.update, delivery.made)
    /\ last' = [op |-> delivery.op,
                ret |-> returned_requests(requests, delivery.initial_count),
                made |-> delivery.made, before |-> delivery.before,
                after_reset |-> delivery.after_reset,
                overlapped |-> delivery.overlapped]
    /\ delivery' = Idle
    /\ UNCHANGED <<transport_vars, bot_user, factory_vars, users, dispatcher,
                   engine_vars,
                   test_vars>>

\* test code calls the bot API directly: await client.bot.<method>(...)
bot_request(call) ==
    /\ delivery.pc = "idle"
    /\ capture_len(requests) < MaxCapture
    /\ \E o \in generate_response(call.method_name, call.params,
                   session_message_id_counter, next_dice_values, bot_user) :
          /\ o.counter <= ResponseIdBase + MaxResponseIds
          /\ make_request(call.method_name, call.params, o)
          /\ last' = Intercepted(call, o)
    /\ UNCHANGED <<bot_user, factory_vars, users, dispatcher, delivery,
                   engine_vars,
                   test_vars>>

\* MockBot.set_next_dice_value(value)
bot_set_next_dice_value(value) ==
    /\ delivery.pc = "idle"
    /\ Len(next_dice_values) < MaxQueue
    /\ next_dice_values' = set_next_dice_value(next_dice_values, value)
    /\ last' = [op |-> "set_next_dice_value", value |-> value]
    /\ UNCHANGED <<requests, session_message_id_counter, bot_user, factory_vars,
                   users, dispatcher, delivery, engine_vars,
                   test_vars>>

\* MockBot.reset_capture()
reset_capture ==
    /\ delivery.pc = "idle"
    /\ requests' = clear(requests)
    /\ last' = [op |-> "reset_capture"]
    /\ UNCHANGED <<session_message_id_counter, next_dice_values, bot_user,
                   factory_vars, users, dispatcher, delivery, engine_vars,
                   test_vars>>

\* MockBot.reset_message_counter()
bot_reset_message_counter ==
    /\ delivery.pc = "idle"
    /\ session_message_id_counter' = reset_message_counter
    /\ last' = [op |-> "reset_message_counter"]
    /\ UNCHANGED <<requests, next_dice_values, bot_user, factory_vars,
                   users, dispatcher, delivery, engine_vars,
                   test_vars>>

\* TestClient.reset()
reset ==
    /\ delivery.pc = "idle"
    /\ requests' = clear(requests)
    /\ session_message_id_counter' = reset_message_counter
    /\ user_id_counter' = UserFactory_reset_counter
    /\ message_id_counter' = MessageFactory_reset_counter
    /\ callback_id_counter' = CallbackQueryFactory_reset_counter
    /\ update_id_counter' = UpdateFactory_reset_counter
    /\ issued' = NoIds
    /\ last' = [op |-> "reset", again |-> (last.op = "reset")]
    /\ UNCHANGED <<next_dice_values, bot_user, users, dispatcher, delivery,
                   engine_vars,
                   test_vars>>

\* ------------------------------------------------- failures in a handler
\* the exceptions an application handler throws
Exceptions == {"ValueError", "KeyError"}

\* a send_* that reports every failure as an error of its own
propagated_translated(exc) == "TestClientError"

\* `await self._dispatcher.feed_update(...)` stands in no try block: the
\* exception that leaves feed_update is the one that leaves send_*
propagated(exc) == exc

\* a handler throws exc and dispatcher.feed_update raises it
feed_update_raises(exc) ==
    /\ delivery.pc = "feed_update"
    /\ dispatcher.handler = "free"
    /\ delivery' = [delivery EXCEPT !.pc = "raising"]
    /\ last' = [op |-> "feed_update_raised", exc |-> exc]
    /\ UNCHANGED <<transport_vars, bot_user, factory_vars, users, dispatcher,
                   engine_vars,
                   test_vars>>

\* the exception leaves send_*: the return statement is not reached
send_raise ==
    /\ delivery.pc = "raising"
    /\ last' = [op |-> "raised", of |-> delivery.op, exc |-> propagated(last.exc),
                made |-> delivery.made, before |-> delivery.before]
    /\ delivery' = Idle
    /\ UNCHANGED <<transport_vars, bot_user, factory_vars, users, dispatcher,
                   engine_vars,
                   test_vars>>

\* ------------------------------------------------- concurrent test tasks
\* a handler awaits, and the event loop runs another task of the test, as
\* with asyncio.gather(user1.send_message(...), user2.send_message(...))
suspend ==
    /\ delivery.pc = "feed_update"
    /\ suspended' = Append(suspended, [d |-> delivery, at |-> update_id_counter])
    /\ delivery' = Idle
    /\ last' = [op |-> "suspend"]
    /\ UNCHANGED <<transport_vars, bot_user, factory_vars, users, dispatcher,
                   lifecycle, test_vars>>

\* the event loop resumes the k-th suspended task; its delivery has overlapped
\* another one when another is still suspended or one started in the meantime
resume(k) ==
    /\ delivery.pc = "idle"
    /\ k \in 1..Len(suspended)
    /\ delivery' = [suspended[k].d EXCEPT !.overlapped =
                       \/ @
                       \/ Len(suspended) > 1
                       \/ update_id_counter # suspended[k].at]
    /\ suspended' = SubSeq(suspended, 1, k - 1) \o SubSeq(suspended, k + 1, Len(suspended))
    /\ last' = [op |-> "resume"]
    /\ UNCHANGED <<transport_vars, bot_user, factory_vars, users, dispatcher,
                   lifecycle, test_vars>>

\* ------------------------------------------------------------- lifecycle
MaxEmits == 2       \* startup emissions, and shutdown emissions, of one dispatcher

\* a close that emits shutdown only for a startup not yet shut down
close_if_started(lc) ==
    IF lc.startups > lc.shutdowns THEN [lc EXCEPT !.shutdowns = @ + 1] ELSE lc

\* TestClient.close: await self._dispatcher.emit_shutdown()
close(lc) == [lc EXCEPT !.shutdowns = @ + 1]

\* TestClient.__aenter__: await self._dispatcher.emit_startup()
aenter(lc) == [lc EXCEPT !.startups = @ + 1, !.ctx = "entered"]

\* an exit that cleans up only when the body completed normally
aexit_on_success_only(lc, exc_type) ==
    IF exc_type = None THEN [close(lc) EXCEPT !.ctx = "exited"]
    ELSE [lc EXCEPT !.ctx = "exited"]

\* TestClient.__aexit__(exc_type, exc_val, exc_tb): await self.close()
aexit(lc, exc_type) == [close(lc) EXCEPT !.ctx = "exited"]

\* `async with client:` is entered
context_enter ==
    /\ delivery.pc = "idle"
    /\ lifecycle.ctx # "entered"
    /\ lifecycle.startups < MaxEmits
    /\ lifecycle' = aenter(lifecycle)
    /\ last' = [op |-> "aenter"]
    /\ UNCHANGED <<transport_vars, bot_user, factory_vars, users, dispatcher,
                   delivery, suspended, test_vars>>

\* the body of `async with client:` is left, normally (exc_type = None) or by
\* an exception raised inside it
context_exit(exc_type) ==
    /\ delivery.pc = "idle"
    /\ lifecycle.ctx = "entered"
    /\ lifecycle.shutdowns < MaxEmits
    /\ lifecycle' = aexit(lifecycle, exc_type)
    /\ last' = [op |-> "aexit", exc_type |-> exc_type]
    /\ UNCHANGED <<transport_vars, bot_user, factory_vars, users, dispatcher,
                   delivery, suspended, test_vars>>

\* test code calls await client.close()
client_close ==
    /\ delivery.pc = "idle"
    /\ lifecycle.shutdowns < MaxEmits
    /\ lifecycle' = close(lifecycle)
    /\ last' = [op |-> "close"]
    /\ UNCHANGED <<transport_vars, bot_user, factory_vars, users, dispatcher,
                   delivery, suspended, test_vars>>

\* AsyncBotTestMixin.setup_client, after its TestClient.create returned:
\* await client.dispatcher.emit_startup()
setup_client ==
    /\ delivery.pc = "idle"
    /\ last.op = "create"
    /\ lifecycle.startups < MaxEmits
    /\ lifecycle' = [lifecycle EXCEPT !.startups = @ + 1]
    /\ last' = [op |-> "setup_client"]
    /\ UNCHANGED <<transport_vars, bot_user, factory_vars, users, dispatcher,
                   delivery, suspended, test_vars>>

\* ------------------------------------------------------- specifications
\* TestUser.send_message(text) of the i-th user
TestUser_send_message(i, text) ==
    send_message(text, users[i].user, Some(users[i].chat))

\* TestUser.send_command(command, args) of the i-th user
TestUser_send_command(i, command, args) ==
    send_command(command, users[i].user, args, Some(users[i].chat))

\* TestUser.click_button(callback_data, message) of the i-th user
TestUser_click_button(i, callback_data, message) ==
    send_callback(callback_data, users[i].user, message)

\* the ids of the chats a test builds itself and binds a TestUser to
ExternalChatIds == {555}

\* test code builds TestUser(client, user=UserFactory.create(),
\* chat=ChatFactory.create_private(chat_id)) itself
TestUser_init(chat_id) ==
    /\ delivery.pc = "idle"
    /\ Len(users) < MaxUsers
    /\ user_id_counter < UserIdBase + MaxIds
    /\ LET r == UserFactory_create(None, "Test", Some("User"), None,
                                   user_id_counter)
       IN  /\ users' = Append(users,
                  [user |-> r.user,
                   chat |-> ChatFactory_create_private(chat_id, "Test",
                                                       Some("User"), None)])
           /\ user_id_counter' = r.counter
           /\ issued' = [issued EXCEPT !.user = Append(@, r.user.id)]
    /\ last' = [op |-> "TestUser"]
    /\ UNCHANGED <<transport_vars, bot_user, message_id_counter,
                   callback_id_counter, update_id_counter, dispatcher, delivery,
                   engine_vars,
                   test_vars>>

\* the message with the button, as a test passes it to click_button: a message
\* of the bot in the user's chat, with an id of the test's choosing
button_message(i) ==
    MessageFactory_create(<<"menu">>, bot_user, Some(users[i].chat), Some(1),
                          message_id_counter).message

\* a test that acts through TestUser objects, bound to derived chats or to
\* chats of its own, and through TestClient.send_message without a chat
NextUser ==
    \/ create_user(None)
    \/ \E chat_id \in ExternalChatIds : TestUser_init(chat_id)
    \/ \E i \in 1..Len(users), text \in Texts : TestUser_send_message(i, text)
    \/ \E i \in 1..Len(users), command \in Commands :
          TestUser_send_command(i, command, None)
    \/ \E i \in 1..Len(users), data \in CallbackData :
          \E message \in {None, Some(button_message(i))} :
             TestUser_click_button(i, data, message)
    \/ \E i \in 1..Len(users), text \in Texts :
          send_message(text, users[i].user, None)
    \/ handler_request
    \/ send_return

SpecUser == Init /\ [][NextUser]_vars

\* a test whose handlers may throw
NextFailure ==
    \/ create_user(None)
    \/ \E i \in 1..Len(users), text \in Texts : TestUser_send_message(i, text)
    \/ \E i \in 1..Len(users), command \in Commands :
          TestUser_send_command(i, command, None)
    \/ \E i \in 1..Len(users), data \in CallbackData :
          TestUser_click_button(i, data, None)
    \/ handler_request
    \/ \E exc \in Exceptions : feed_update_raises(exc)
    \/ send_raise
    \/ send_return

SpecFailure == Init /\ [][NextFailure]_vars

\* a test that gathers the deliveries of its users in concurrent tasks
NextConcurrent ==
    \/ create_user(None)
    \/ \E i \in 1..Len(users), text \in Texts : TestUser_send_message(i, text)
    \/ handler_request
    \/ send_return
    \/ suspend
    \/ \E k \in 1..Len(suspended) : resume(k)

SpecConcurrent == Init /\ [][NextConcurrent]_vars

\* a test that uses the client as an async context manager, or closes it itself
NextLifecycle ==
    \/ context_enter
    \/ \E exc_type \in {None} \cup {Some(e) : e \in Exceptions} :
          context_exit(exc_type)
    \/ client_close
    \/ create_user(None)
    \/ \E i \in 1..Len(users), text \in Texts : TestUser_send_message(i, text)
    \/ handler_request
    \/ send_return
    \/ reset

SpecLifecycle == Init /\ [][NextLifecycle]_vars

\* the bot API calls test code makes on a MockBot directly
BotCalls ==
    {Call("sendMessage", [chat_id |-> UserIdBase, text |-> <<"h", "i">>]),
     Call("editMessageText", [chat_id |-> UserIdBase, message_id |-> 1,
                              text |-> <<"i">>]),
     Call("editMessageText", [inline_message_id |-> "1", text |-> <<"i">>]),
     Call("deleteMessage", [chat_id |-> UserIdBase, message_id |-> 1]),
     Call("answerCallbackQuery", [callback_query_id |-> "1"]),
     Call("sendPhoto", [chat_id |-> UserIdBase, photo |-> "file"]),
     Call("getMe", <<>>),
     Call("getChat", [chat_id |-> UserIdBase + 1]),
     Call("getChatMember", [chat_id |-> UserIdBase, user_id |-> UserIdBase + 1]),
     Call("sendSticker", [chat_id |-> UserIdBase, sticker |-> "file"]),
     Call("logOut", <<>>)}

\* the bot API calls of a test of the dice queue
DiceCalls ==
    {Call("sendDice", [chat_id |-> UserIdBase]),
     Call("sendDice", [chat_id |-> UserIdBase, emoji |-> "basketball"]),
     Call("sendMessage", [chat_id |-> UserIdBase, text |-> <<"h", "i">>])}

\* a test that drives the MockBot alone, as tests/test_mock_bot.py does
NextTransport ==
    \/ \E call \in BotCalls : bot_request(call)
    \/ reset_capture
    \/ bot_reset_message_counter
    \/ reset

SpecTransport == Init /\ [][NextTransport]_vars

\* a test that pre-sets dice values on the MockBot and has dice sent
NextDice ==
    \/ \E call \in DiceCalls : bot_request(call)
    \/ \E value \in DiceInputs : bot_set_next_dice_value(value)
    \/ reset_capture
    \/ bot_reset_message_counter
    \/ reset

SpecDice == Init /\ [][NextDice]_vars

\* the calls a test of the capture queries has the bot make: two chats, one
\* of them chat 0, an empty text, calls without a chat_id or without a text
QueryCalls ==
    {Call("sendMessage", [chat_id |-> 0, text |-> <<"h", "i">>]),
     Call("sendMessage", [chat_id |-> UserIdBase, text |-> <<>>]),
     Call("sendMessage", [chat_id |-> UserIdBase, text |-> <<"i">>]),
     Call("editMessageText", [chat_id |-> 0, message_id |-> 1, text |-> <<"h">>]),
     Call("editMessageText", [inline_message_id |-> "1", text |-> <<"h">>]),
     Call("deleteMessage", [chat_id |-> 0, message_id |-> 1]),
     Call("deleteMessage", [chat_id |-> UserIdBase, message_id |-> 1]),
     Call("sendDice", [chat_id |-> 0, emoji |-> "football"])}

\* the chat filters and the substrings the queries are asked with
QueryChats == {None, Some(0), Some(UserIdBase)}
QueryNeedles == Needles \cup {<<>>}
ListQueries == {"get_sent_messages", "get_edited_messages",
                "get_deleted_messages", "get_dice_sends"}

\* the list query of that name, applied
list_query(name, reqs, chat_id) ==
    CASE name = "get_sent_messages" -> get_sent_messages(reqs, chat_id)
      [] name = "get_edited_messages" -> get_edited_messages(reqs, chat_id)
      [] name = "get_deleted_messages" -> get_deleted_messages(reqs, chat_id)
      [] name = "get_dice_sends" -> get_dice_sends(reqs, chat_id)

\* test code calls capture.<name>(chat_id=chat_id)
capture_list_query(name, chat_id) ==
    /\ delivery.pc = "idle"
    /\ last' = [op |-> "list_query", name |-> name, chat_id |-> chat_id,
                result |-> list_query(name, requests, chat_id)]
    /\ UNCHANGED <<transport_vars, bot_user, factory_vars, users, dispatcher,
                   delivery, engine_vars,
                   test_vars>>

\* test code calls capture.has_message_containing(text, chat_id)
capture_has_message_containing(text, chat_id) ==
    /\ delivery.pc = "idle"
    /\ last' = [op |-> "has_message_containing", text |-> text,
                chat_id |-> chat_id,
                result |-> has_message_containing(requests, text, chat_id)]
    /\ UNCHANGED <<transport_vars, bot_user, factory_vars, users, dispatcher,
                   delivery, engine_vars,
                   test_vars>>

\* test code calls capture.get_last_message(chat_id)
capture_get_last_message(chat_id) ==
    /\ delivery.pc = "idle"
    /\ last' = [op |-> "get_last_message", chat_id |-> chat_id,
                result |-> get_last_message(requests, chat_id)]
    /\ UNCHANGED <<transport_vars, bot_user, factory_vars, users, dispatcher,
                   delivery, engine_vars,
                   test_vars>>

\* test code calls capture.get_last_request()
capture_get_last_request ==
    /\ delivery.pc = "idle"
    /\ last' = [op |-> "get_last_request",
                result |-> get_last_request(requests)]
    /\ UNCHANGED <<transport_vars, bot_user, factory_vars, users, dispatcher,
                   delivery, engine_vars,
                   test_vars>>

\* a test of the capture queries, as tests/test_request_capture.py
NextQueries ==
    \/ \E call \in QueryCalls : bot_request(call)
    \/ \E name \in ListQueries, chat_id \in QueryChats :
          capture_list_query(name, chat_id)
    \/ \E text \in QueryNeedles, chat_id \in QueryChats :
          capture_has_message_containing(text, chat_id)
    \/ \E chat_id \in QueryChats : capture_get_last_message(chat_id)
    \/ capture_get_last_request
    \/ reset_capture

SpecQueries == Init /\ [][NextQueries]_vars

\* a test of the response ids: every kind of call MockSession answers
NextResponseIds ==
    \/ \E call \in BotCalls \cup {Call("sendDice", [chat_id |-> UserIdBase])} :
          bot_request(call)
    \/ bot_reset_message_counter
    \/ reset_capture

SpecResponseIds == Init /\ [][NextResponseIds]_vars

\* one call for each kind of answer MockSession._generate_response gives
FrameCalls ==
    {Call("getMe", <<>>),
     Call("sendMessage", [chat_id |-> UserIdBase, text |-> <<"h", "i">>]),
     Call("editMessageText", [chat_id |-> UserIdBase, message_id |-> 1,
                              text |-> <<"i">>]),
     Call("deleteMessage", [chat_id |-> UserIdBase, message_id |-> 1]),
     Call("answerCallbackQuery", [callback_query_id |-> "1"]),
     Call("sendDice", [chat_id |-> UserIdBase]),
     Call("sendPhoto", [chat_id |-> UserIdBase, photo |-> "file"]),
     Call("getChatMember", [chat_id |-> UserIdBase, user_id |-> UserIdBase + 1]),
     Call("getChat", [chat_id |-> UserIdBase + 1]),
     Call("logOut", <<>>)}

\* a test that pre-sets dice values and has the bot make calls of every kind
NextDiceFrame ==
    \/ \E call \in FrameCalls : bot_request(call)
    \/ \E value \in DiceInputs : bot_set_next_dice_value(value)
    \/ reset_capture
    \/ bot_reset_message_counter

SpecDiceFrame == Init /\ [][NextDiceFrame]_vars

\* ------------------------------------------ lists the test keeps hold of
MaxHeld == 1        \* lists got from all_requests that the test keeps

\* what the test does to a list it holds
ListMutations == {"append", "pop", "clear"}

\* a CapturedRequest the test builds itself to append to a list it holds
OwnRequest == CapturedRequest("sendMessage", [chat_id |-> 0, text |-> <<"x">>], True)

\* list.append(OwnRequest) / list.pop() / list.clear()
mutated(items, how) ==
    CASE how = "append" -> Append(items, OwnRequest)
      [] how = "pop" -> SubSeq(items, 1, Len(items) - 1)
      [] how = "clear" -> <<>>

\* test code evaluates capture.all_requests and keeps the list
capture_all_requests ==
    /\ delivery.pc = "idle"
    /\ Len(held) < MaxHeld
    /\ held' = Append(held, all_requests_object(requests))
    /\ last' = [op |-> "all_requests"]
    /\ UNCHANGED <<transport_vars, bot_user, factory_vars, users, dispatcher,
                   delivery, engine_vars, second, rebound>>

\* test code mutates the k-th list it holds; a list that is the store's own
\* list is the store
held_mutate(k, how) ==
    /\ delivery.pc = "idle"
    /\ k \in 1..Len(held)
    /\ how = "pop" => items_of(held[k], requests) # <<>>
    /\ how = "append" => Len(items_of(held[k], requests)) < MaxCapture
    /\ IF held[k].shared
       THEN requests' = mutated(requests, how) /\ held' = held
       ELSE requests' = requests
            /\ held' = [held EXCEPT ![k].items = mutated(@, how)]
    /\ last' = [op |-> "held_mutate", k |-> k, how |-> how]
    /\ UNCHANGED <<session_message_id_counter, next_dice_values, bot_user,
                   factory_vars, users, dispatcher, delivery, engine_vars,
                   second, rebound>>

\* the test lets go of the lists it holds
held_release ==
    /\ delivery.pc = "idle"
    /\ held # <<>>
    /\ held' = <<>>
    /\ last' = [op |-> "held_release"]
    /\ UNCHANGED <<transport_vars, bot_user, factory_vars, users, dispatcher,
                   delivery, engine_vars, second, rebound>>

\* a test that keeps lists got from all_requests while the store changes
NextSnapshot ==
    \/ \E call \in ClientCalls : bot_request(call)
    \/ reset_capture
    \/ capture_all_requests
    \/ \E k \in 1..Len(held), how \in ListMutations : held_mutate(k, how)
    \/ held_release
    \/ \E chat_id \in {None, Some(UserIdBase)} :
          capture_list_query("get_sent_messages", chat_id)
    \/ capture_get_last_request

SpecSnapshot == Init /\ [][NextSnapshot]_vars

\* --------------------------------------------- a second TestClient
\* the bot ids a test gives a second client
SecondBotIds == {654321}

\* test code calls TestClient.create(...) a second time: a capture store, a
\* MockBot and a dispatcher of its own; the factory counters are class
\* attributes and are not touched
create_second(bot_id, setup_dispatcher_func) ==
    /\ delivery.pc = "idle"
    /\ ~second.created
    /\ LET c == create(bot_id, None, setup_dispatcher_func)
       IN  second' = [created |-> TRUE,
                      requests |-> <<>>,
                      session_message_id_counter |-> ResponseIdBase,
                      next_dice_values |-> <<>>,
                      bot_user |-> c.bot_user,
                      dispatcher |-> c.dispatcher]
    /\ last' = [op |-> "create_second"]
    /\ UNCHANGED <<transport_vars, bot_user, factory_vars, users, dispatcher,
                   delivery, engine_vars, held, rebound>>

\* the delivery record a send_* call on the second client starts with
StartedSecond(op, update) ==
    [pc |-> "feed_update_second", op |-> op,
     initial_count |-> capture_len(second.requests),
     update |-> update, made |-> <<>>, before |-> second.requests,
     after_reset |-> (last.op = "reset"), overlapped |-> FALSE]

\* TestClient.send_message on the second client, up to the await
second_send_message(text, from_user, chat) ==
    /\ delivery.pc = "idle"
    /\ second.created
    /\ message_id_counter < IdBase + MaxIds
    /\ update_id_counter < IdBase + MaxIds
    /\ LET m == MessageFactory_create(text, from_user, chat, None,
                                      message_id_counter)
           u == UpdateFactory_create_message_update(m.message, None,
                                                    update_id_counter)
       IN  /\ delivery' = StartedSecond("send_message", u.update)
           /\ message_id_counter' = m.counter
           /\ update_id_counter' = u.counter
           /\ issued' = [issued EXCEPT
                            !.message = Append(@, m.message.message_id),
                            !.update = Append(@, u.update.update_id)]
    /\ last' = [op |-> "from_text"]
    /\ UNCHANGED <<transport_vars, bot_user, user_id_counter,
                   callback_id_counter, users, dispatcher, engine_vars,
                   test_vars>>

\* TestClient.send_command on the second client, up to the await
second_send_command(command, from_user, args, chat) ==
    /\ delivery.pc = "idle"
    /\ second.created
    /\ message_id_counter < IdBase + MaxIds
    /\ update_id_counter < IdBase + MaxIds
    /\ LET m == MessageFactory_create_command(command, from_user, args, chat,
                                              None, message_id_counter)
           u == UpdateFactory_create_message_update(m.message, None,
                                                    update_id_counter)
       IN  /\ delivery' = StartedSecond("send_command", u.update)
           /\ message_id_counter' = m.counter
           /\ update_id_counter' = u.counter
           /\ issued' = [issued EXCEPT
                            !.message = Append(@, m.message.message_id),
                            !.update = Append(@, u.update.update_id)]
    /\ last' = [op |-> "from_command"]
    /\ UNCHANGED <<transport_vars, bot_user, user_id_counter,
                   callback_id_counter, users, dispatcher, engine_vars,
                   test_vars>>

\* TestClient.send_callback on the second client, up to the await
second_send_callback(data, from_user, message) ==
    /\ delivery.pc = "idle"
    /\ second.created
    /\ callback_id_counter < IdBase + MaxIds
    /\ update_id_counter < IdBase + MaxIds
    /\ message = None => message_id_counter < IdBase + MaxIds
    /\ LET c == CallbackQueryFactory_create(data, from_user, message, None,
                    callback_id_counter, message_id_counter)
           u == UpdateFactory_create_callback_update(c.callback_query, None,
                                                     update_id_counter)
       IN  /\ delivery' = StartedSecond("send_callback", u.update)
           /\ callback_id_counter' = c.cb_counter
           /\ message_id_counter' = c.msg_counter
           /\ update_id_counter' = u.counter
           /\ issued' = [issued EXCEPT
                            !.callback = Append(@, c.callback_query.id),
                            !.message = IF message = None
                                        THEN Append(@, c.callback_query.message.message_id)
                                        ELSE @,
                            !.update = Append(@, u.update.update_id)]
    /\ last' = [op |-> "from_callback"]
    /\ UNCHANGED <<transport_vars, bot_user, user_id_counter, users, dispatcher,
                   engine_vars, test_vars>>

\* a handler of the second client's dispatcher calls the bot it was handed,
\* the second client's MockBot: feed_update(bot=self._bot, update=update)
second_handler_request ==
    /\ delivery.pc = "feed_update_second"
    /\ capture_len(second.requests) < MaxCapture
    /\ \E call \in handler_calls(second.dispatcher.handler, delivery.update,
                                 delivery.made) :
       \E o \in generate_response(call.method_name, call.params,
                   second.session_message_id_counter, second.next_dice_values,
                   second.bot_user) :
          /\ o.counter <= ResponseIdBase + MaxResponseIds
          /\ second' = [second EXCEPT
                 !.requests = add(@, CapturedRequest(call.method_name,
                                                     call.params, o.response)),
                 !.session_message_id_counter = o.counter,
                 !.next_dice_values = o.queue]
          /\ delivery' = [delivery EXCEPT !.made =
                 Append(@, CapturedRequest(call.method_name, call.params, o.response))]
          /\ last' = Intercepted(call, o)
    /\ UNCHANGED <<transport_vars, bot_user, factory_vars, users, dispatcher,
                   engine_vars, held, rebound>>

\* feed_update of the second client returns and its send_* returns the slice
second_send_return ==
    /\ delivery.pc = "feed_update_second"
    /\ handler_done(second.dispatcher.handler, delivery.update, delivery.made)
    /\ last' = [op |-> delivery.op,
                ret |-> returned_requests(second.requests, delivery.initial_count),
                made |-> delivery.made, before |-> delivery.before,
                after_reset |-> delivery.after_reset,
                overlapped |-> delivery.overlapped]
    /\ delivery' = Idle
    /\ UNCHANGED <<transport_vars, bot_user, factory_vars, users, dispatcher,
                   engine_vars, test_vars>>

\* ------------------------------------------------ TestUser and its client
\* the clients a TestUser can be bound to: the one that made it, and the second
Clients == {1, 2}

\* a change_client that leaves the user bound as it was
client_of_unchanged(i) == 1

\* TestUser._client of the i-th user
client_of(i) == IF i \in rebound THEN 2 ELSE 1

\* TestClient.capture of a client
capture_of(c) == IF c = 1 THEN requests ELSE second.requests

\* TestUser.change_client(client): self._client = client
change_client(i, c) ==
    /\ delivery.pc = "idle"
    /\ c = 2 => second.created
    /\ rebound' = IF c = 2 THEN rebound \cup {i} ELSE rebound \ {i}
    /\ last' = [op |-> "change_client", user |-> i, client |-> c]
    /\ UNCHANGED <<transport_vars, bot_user, factory_vars, users, dispatcher,
                   delivery, engine_vars, held, second>>

\* TestUser.send_message(text): self._client.send_message(text, user, chat)
bound_send_message(i, text) ==
    IF client_of(i) = 1 THEN TestUser_send_message(i, text)
    ELSE second_send_message(text, users[i].user, Some(users[i].chat))

\* TestUser.send_command(command): self._client.send_command(...)
bound_send_command(i, command, args) ==
    IF client_of(i) = 1 THEN TestUser_send_command(i, command, args)
    ELSE second_send_command(command, users[i].user, args, Some(users[i].chat))

\* TestUser.click_button(callback_data): self._client.send_callback(...)
bound_click_button(i, callback_data, message) ==
    IF client_of(i) = 1 THEN TestUser_click_button(i, callback_data, message)
    ELSE second_send_callback(callback_data, users[i].user, message)

\* TestUser.get_sent_messages():
\* self._client.capture.get_sent_messages(chat_id=self.chat_id)
TestUser_get_sent_messages(i) ==
    /\ delivery.pc = "idle"
    /\ client_of(i) = 2 => second.created
    /\ last' = [op |-> "user_get_sent_messages", user |-> i,
                result |-> get_sent_messages(capture_of(client_of(i)),
                                             Some(users[i].chat.id))]
    /\ UNCHANGED <<transport_vars, bot_user, factory_vars, users, dispatcher,
                   delivery, engine_vars, test_vars>>

\* a test that makes a second client and moves users to it and back
NextRebind ==
    \/ create_user(None)
    \/ \E b \in SecondBotIds, f \in SetupFuncs : create_second(b, f)
    \/ \E i \in 1..Len(users), c \in Clients : change_client(i, c)
    \/ \E i \in 1..Len(users), text \in Texts : bound_send_message(i, text)
    \/ \E i \in 1..Len(users), command \in Commands :
          bound_send_command(i, command, None)
    \/ \E i \in 1..Len(users), data \in CallbackData :
          bound_click_button(i, data, None)
    \/ handler_request
    \/ send_return
    \/ second_handler_request
    \/ second_send_return
    \/ \E i \in 1..Len(users) : TestUser_get_sent_messages(i)

SpecRebind == Init /\ [][NextRebind]_vars

\* -------------------------------------------------- forwarded messages
ForwardOps == {"send_forwarded_from_user", "send_forwarded_from_hidden_user",
               "send_forwarded_from_chat", "send_forwarded_from_channel"}

\* what a test forwards from: a display name, signatures, a group, a channel
\* post id
SenderNames == {"Anonymous User"}
Signatures == {None, Some("Admin")}
SenderChats == {ChatFactory_create_group(-100123, "Test Group")}
ChannelMessageIds == {42}

\* TestClient.send_forwarded_*: builds the forwarded message and its update
\* and delivers it as the other send_* do, up to the await of feed_update
send_forwarded(op, text, from_user, forward_origin) ==
    /\ delivery.pc = "idle"
    /\ message_id_counter < IdBase + MaxIds
    /\ update_id_counter < IdBase + MaxIds
    /\ LET m == MessageFactory_create_forwarded(text, from_user, forward_origin,
                                                None, message_id_counter)
           u == UpdateFactory_create_message_update(m.message, None,
                                                    update_id_counter)
       IN  /\ delivery' = Started(op, u.update)
           /\ message_id_counter' = m.counter
           /\ update_id_counter' = u.counter
           /\ issued' = [issued EXCEPT
                            !.message = Append(@, m.message.message_id),
                            !.update = Append(@, u.update.update_id)]
    /\ last' = [op |-> "from_forwarded"]
    /\ UNCHANGED <<transport_vars, bot_user, user_id_counter,
                   callback_id_counter, users, dispatcher, engine_vars,
                   test_vars>>

\* TestClient.send_forwarded_from_user(text, from_user, forward_from)
send_forwarded_from_user(text, from_user, forward_from) ==
    send_forwarded("send_forwarded_from_user", text, from_user,
                   MessageOriginUser(forward_from))

\* TestClient.send_forwarded_from_hidden_user(text, from_user, sender_user_name)
send_forwarded_from_hidden_user(text, from_user, sender_user_name) ==
    send_forwarded("send_forwarded_from_hidden_user", text, from_user,
                   MessageOriginHiddenUser(sender_user_name))

\* TestClient.send_forwarded_from_chat(text, from_user, sender_chat,
\* author_signature)
send_forwarded_from_chat(text, from_user, sender_chat, author_signature) ==
    send_forwarded("send_forwarded_from_chat", text, from_user,
                   MessageOriginChat(sender_chat, author_signature))

\* TestClient.send_forwarded_from_channel(text, from_user, channel_chat,
\* channel_message_id, author_signature)
send_forwarded_from_channel(text, from_user, channel_chat, channel_message_id, author_signature) ==
    send_forwarded("send_forwarded_from_channel", text, from_user,
                   MessageOriginChannel(channel_chat, channel_message_id,
                                        author_signature))

\* a test that forwards messages to the bot, as TestTestClientForwardedMessages
NextForward ==
    \/ create_user(None)
    \/ \E i \in 1..Len(users), j \in 1..Len(users), text \in Texts :
          send_forwarded_from_user(text, users[i].user, users[j].user)
    \/ \E i \in 1..Len(users), text \in Texts, name \in SenderNames :
          send_forwarded_from_hidden_user(text, users[i].user, name)
    \/ \E i \in 1..Len(users), text \in Texts, chat \in SenderChats,
          signature \in Signatures :
          send_forwarded_from_chat(text, users[i].user, chat, signature)
    \/ \E i \in 1..Len(users), text \in Texts, chat \in SenderChats,
          id \in ChannelMessageIds, signature \in Signatures :
          send_forwarded_from_channel(text, users[i].user, chat, id, signature)
    \/ handler_request
    \/ send_return
    \/ reset

SpecForward == Init /\ [][NextForward]_vars

\* a test whose client comes from TestClient.create or from
\* AsyncBotTestMixin.setup_client
NextStartup ==
    \/ setup_client
    \/ context_enter
    \/ \E exc_type \in {None} \cup {Some(e) : e \in Exceptions} :
          context_exit(exc_type)
    \/ client_close
    \/ create_user(None)
    \/ \E i \in 1..Len(users), text \in Texts : TestUser_send_message(i, text)
    \/ handler_request
    \/ send_return
    \/ reset

SpecStartup == Init /\ [][NextStartup]_vars

\* the dice values and emoji a test of the factories passes: values at, inside
\* and outside the edges of each range, and no value at all
DiceValueInputs == {None} \cup {Some(v) : v \in {-1, 0, 1, 5, 6, 7, 64, 65}}
DiceEmojis == {"dice", "darts", "bowling", "basketball", "football",
               "slot_machine", "heart"}

\* test code calls MessageFactory.create_dice(from_user, value, emoji)
factory_create_dice(i, value, emoji) ==
    /\ delivery.pc = "idle"
    /\ message_id_counter < IdBase + MaxIds
    /\ \E o \in MessageFactory_create_dice(users[i].user, value, emoji, None,
                                           None, message_id_counter) :
          /\ message_id_counter' = o.counter
          /\ issued' = [issued EXCEPT !.message = Append(@, message_id_counter)]
          /\ last' = [op |-> "create_dice", value |-> value, emoji |-> emoji,
                      from_user |-> users[i].user,
                      raised |-> o.raised, result |-> o.message]
    /\ UNCHANGED <<transport_vars, bot_user, user_id_counter,
                   callback_id_counter, update_id_counter, users, dispatcher,
                   delivery, engine_vars,
                   test_vars>>

\* test code calls UpdateFactory.from_dice(from_user, value, emoji)
factory_from_dice(i, value, emoji) ==
    /\ delivery.pc = "idle"
    /\ message_id_counter < IdBase + MaxIds
    /\ update_id_counter < IdBase + MaxIds
    /\ \E o \in UpdateFactory_from_dice(users[i].user, value, emoji, None,
                                        message_id_counter, update_id_counter) :
          /\ message_id_counter' = o.msg_counter
          /\ update_id_counter' = o.upd_counter
          /\ issued' = [issued EXCEPT
                           !.message = Append(@, message_id_counter),
                           !.update = IF o.raised = None
                                      THEN Append(@, update_id_counter) ELSE @]
          /\ last' = [op |-> "from_dice", value |-> value, emoji |-> emoji,
                      from_user |-> users[i].user,
                      raised |-> o.raised,
                      result |-> IF o.raised = None
                                 THEN o.update[1].message ELSE None]
    /\ UNCHANGED <<transport_vars, bot_user, user_id_counter,
                   callback_id_counter, users, dispatcher, delivery,
                   engine_vars,
                   test_vars>>

\* a test of the dice factories, as tests/test_factories.py
NextFactoryDice ==
    \/ create_user(None)
    \/ \E i \in 1..Len(users), value \in DiceValueInputs, emoji \in DiceEmojis :
          factory_create_dice(i, value, emoji)
    \/ \E i \in 1..Len(users), value \in DiceValueInputs, emoji \in DiceEmojis :
          factory_from_dice(i, value, emoji)
    \/ reset

SpecFactoryDice == Init /\ [][NextFactoryDice]_vars

\* the identities a test builds: ids given or drawn from the counter, and a
\* handle that is present, empty or absent
UserIdInputs == {None, Some(789)}
FirstNames == {"Test", "Jane"}
LastNames == {None, Some("Smith")}
Usernames == {None, Some(<<>>), Some(<<"jane">>)}

\* User(id=..., is_bot=False, first_name=..., ...) built by the test itself
Identities ==
    {[kind |-> "User", id |-> 789, is_bot |-> FALSE, first_name |-> f,
      last_name |-> l, username |-> u]
     : f \in FirstNames, l \in LastNames, u \in Usernames}

\* TestClient.create_user(user_id, first_name, last_name, username)
create_user_with(user_id, first_name, last_name, username) ==
    /\ delivery.pc = "idle"
    /\ Len(users) < MaxUsers
    /\ user_id = None => user_id_counter < UserIdBase + MaxIds
    /\ LET r == UserFactory_create(user_id, first_name, last_name, username,
                                   user_id_counter)
       IN  /\ users' = Append(users,
                  [user |-> r.user,
                   chat |-> ChatFactory_create_private_from_user(r.user)])
           /\ user_id_counter' = r.counter
           /\ issued' = IF user_id = None
                        THEN [issued EXCEPT !.user = Append(@, r.user.id)]
                        ELSE issued
           /\ last' = [op |-> "create_user", user |-> r.user,
                       chat |-> ChatFactory_create_private_from_user(r.user)]
    /\ UNCHANGED <<transport_vars, bot_user, message_id_counter,
                   callback_id_counter, update_id_counter, dispatcher, delivery,
                   engine_vars,
                   test_vars>>

\* test code calls ChatFactory.create_private_from_user(user)
chat_from_user(user) ==
    /\ delivery.pc = "idle"
    /\ last' = [op |-> "create_private_from_user", user |-> user,
                chat |-> ChatFactory_create_private_from_user(user)]
    /\ UNCHANGED <<transport_vars, bot_user, factory_vars, users, dispatcher,
                   delivery, engine_vars,
                   test_vars>>

\* a test of the identities and the chats derived from them
NextIdentity ==
    \/ \E user_id \in UserIdInputs, first_name \in FirstNames,
          last_name \in LastNames, username \in Usernames :
          create_user_with(user_id, first_name, last_name, username)
    \/ \E user \in Identities : chat_from_user(user)
    \/ reset

SpecIdentity == Init /\ [][NextIdentity]_vars

\* ------------------------------------------- builders called with ids
\* the ids a test passes to the builders: ids the counter reaches later and,
\* for users, one it never reaches
ExplicitUserIds == {UserIdBase + 1, 12345}
ExplicitIds == {IdBase + 1}
ExplicitCallbackIds == {Str(IdBase + 1)}

\* the user and the message a test hands to the message, callback and update
\* builders, both built with ids of its own
BuilderUser == UserFactory_create(Some(12345), "Test", Some("User"), None,
                                  user_id_counter).user
BuilderMessage == MessageFactory_create(<<"hi">>, BuilderUser, None, Some(50),
                                        message_id_counter).message

\* the ids that were passed to a builder since the last reset
supplied_so_far == IF "supplied" \in DOMAIN last THEN last.supplied ELSE {}

\* what a builder call leaves in `last`
Built(builder, given, id) ==
    [op |-> "build", builder |-> builder, given |-> given, id |-> id,
     supplied |-> IF given = None THEN supplied_so_far
                  ELSE supplied_so_far \cup {<<builder, given[1]>>}]

\* test code calls UserFactory.create(user_id=user_id)
factory_create_user(user_id) ==
    /\ delivery.pc = "idle"
    /\ user_id = None => user_id_counter < UserIdBase + MaxIds
    /\ LET r == UserFactory_create(user_id, "Test", Some("User"), None,
                                   user_id_counter)
       IN  /\ user_id_counter' = r.counter
           /\ issued' = IF user_id = None
                        THEN [issued EXCEPT !.user = Append(@, r.user.id)]
                        ELSE issued
           /\ last' = Built("user", user_id, r.user.id)
    /\ UNCHANGED <<transport_vars, bot_user, message_id_counter,
                   callback_id_counter, update_id_counter, users, dispatcher,
                   delivery, engine_vars, test_vars>>

\* test code calls MessageFactory.create(text, from_user, message_id=message_id)
factory_create_message(message_id) ==
    /\ delivery.pc = "idle"
    /\ message_id = None => message_id_counter < IdBase + MaxIds
    /\ LET r == MessageFactory_create(<<"hi">>, BuilderUser, None, message_id,
                                      message_id_counter)
       IN  /\ message_id_counter' = r.counter
           /\ issued' = IF message_id = None
                        THEN [issued EXCEPT !.message =
                                 Append(@, r.message.message_id)]
                        ELSE issued
           /\ last' = Built("message", message_id, r.message.message_id)
    /\ UNCHANGED <<transport_vars, bot_user, user_id_counter,
                   callback_id_counter, update_id_counter, users, dispatcher,
                   delivery, engine_vars, test_vars>>

\* test code calls CallbackQueryFactory.create(data, from_user, message,
\* callback_id=callback_id)
factory_create_callback(callback_id) ==
    /\ delivery.pc = "idle"
    /\ callback_id = None => callback_id_counter < IdBase + MaxIds
    /\ LET r == CallbackQueryFactory_create("cb", BuilderUser,
                    Some(BuilderMessage), callback_id, callback_id_counter,
                    message_id_counter)
       IN  /\ callback_id_counter' = r.cb_counter
           /\ message_id_counter' = r.msg_counter
           /\ issued' = IF callback_id = None
                        THEN [issued EXCEPT !.callback =
                                 Append(@, r.callback_query.id)]
                        ELSE issued
           /\ last' = Built("callback", callback_id, r.callback_query.id)
    /\ UNCHANGED <<transport_vars, bot_user, user_id_counter,
                   update_id_counter, users, dispatcher, delivery, engine_vars,
                   test_vars>>

\* test code calls UpdateFactory.create_message_update(message, update_id) or
\* UpdateFactory.create_callback_update(callback_query, update_id)
factory_create_update(of_callback, update_id) ==
    /\ delivery.pc = "idle"
    /\ update_id = None => update_id_counter < IdBase + MaxIds
    /\ LET r == IF of_callback
                THEN UpdateFactory_create_callback_update(
                         CallbackQueryFactory_create("cb", BuilderUser,
                             Some(BuilderMessage), Some(<<"c", "b">>),
                             callback_id_counter,
                             message_id_counter).callback_query,
                         update_id, update_id_counter)
                ELSE UpdateFactory_create_message_update(BuilderMessage,
                         update_id, update_id_counter)
       IN  /\ update_id_counter' = r.counter
           /\ issued' = IF update_id = None
                        THEN [issued EXCEPT !.update =
                                 Append(@, r.update.update_id)]
                        ELSE issued
           /\ last' = Built("update", update_id, r.update.update_id)
    /\ UNCHANGED <<transport_vars, bot_user, user_id_counter,
                   message_id_counter, callback_id_counter, users, dispatcher,
                   delivery, engine_vars, test_vars>>

\* a test of the builders that passes ids of its own to some calls and lets
\* the counters give the ids of others
NextExplicitIds ==
    \/ \E user_id \in {None} \cup {Some(x) : x \in ExplicitUserIds} :
          factory_create_user(user_id)
    \/ \E message_id \in {None} \cup {Some(x) : x \in ExplicitIds} :
          factory_create_message(message_id)
    \/ \E callback_id \in {None} \cup {Some(x) : x \in ExplicitCallbackIds} :
          factory_create_callback(callback_id)
    \/ \E of_callback \in BOOLEAN,
          update_id \in {None} \cup {Some(x) : x \in ExplicitIds} :
          factory_create_update(of_callback, update_id)
    \/ reset

SpecExplicitIds == Init /\ [][NextExplicitIds]_vars

\* ------------------------------------- two clients, one set of counters
\* TestClient.create_user() on the second client: UserFactory.create draws
\* from the class attribute, and the TestUser is bound to the second client
second_create_user ==
    /\ delivery.pc = "idle"
    /\ second.created
    /\ Len(users) < MaxUsers
    /\ user_id_counter < UserIdBase + MaxIds
    /\ LET r == UserFactory_create(None, "Test", Some("User"), None,
                                   user_id_counter)
       IN  /\ users' = Append(users,
                  [user |-> r.user,
                   chat |-> ChatFactory_create_private_from_user(r.user)])
           /\ user_id_counter' = r.counter
           /\ issued' = [issued EXCEPT !.user = Append(@, r.user.id)]
    /\ rebound' = rebound \cup {Len(users) + 1}
    /\ last' = [op |-> "create_user", client |-> 2, after |-> last.op]
    /\ UNCHANGED <<transport_vars, bot_user, message_id_counter,
                   callback_id_counter, update_id_counter, dispatcher, delivery,
                   engine_vars, held, second>>

\* TestClient.reset() on the second client: its own capture store and
\* response-id counter, and the counters of the four factory classes
second_reset ==
    /\ delivery.pc = "idle"
    /\ second.created
    /\ second' = [second EXCEPT
                     !.requests = clear(@),
                     !.session_message_id_counter = reset_message_counter]
    /\ user_id_counter' = UserFactory_reset_counter
    /\ message_id_counter' = MessageFactory_reset_counter
    /\ callback_id_counter' = CallbackQueryFactory_reset_counter
    /\ update_id_counter' = UpdateFactory_reset_counter
    /\ issued' = NoIds
    /\ last' = [op |-> "second_reset"]
    /\ UNCHANGED <<transport_vars, bot_user, users, dispatcher, delivery,
                   engine_vars, held, rebound>>

\* AsyncBotTestMixin.reset_factories()
reset_factories ==
    /\ delivery.pc = "idle"
    /\ user_id_counter' = UserFactory_reset_counter
    /\ message_id_counter' = MessageFactory_reset_counter
    /\ callback_id_counter' = CallbackQueryFactory_reset_counter
    /\ update_id_counter' = UpdateFactory_reset_counter
    /\ issued' = NoIds
    /\ last' = [op |-> "reset_factories"]
    /\ UNCHANGED <<transport_vars, bot_user, users, dispatcher, delivery,
                   engine_vars, test_vars>>

\* a test with two clients that creates users and delivers through both and
\* resets through either
NextSharedCounters ==
    \/ \E b \in SecondBotIds, f \in SetupFuncs : create_second(b, f)
    \/ create_user(None)
    \/ second_create_user
    \/ \E i \in 1..Len(users), text \in Texts : bound_send_message(i, text)
    \/ \E i \in 1..Len(users), data \in CallbackData :
          bound_click_button(i, data, None)
    \/ handler_request
    \/ send_return
    \/ second_handler_request
    \/ second_send_return
    \/ reset
    \/ second_reset
    \/ reset_factories

SpecSharedCounters == Init /\ [][NextSharedCounters]_vars

\* ---------------------------------------- two clients, two transports
\* the calls a run with two clients captures in both stores together
MaxTotal == 2

\* a client that holds the first client's MockBot whichever client it is
bot_of_first(c) == 1

\* TestClient._bot: each create builds a RequestCapture and a MockBot of its
\* own, and the MockSession of that bot holds the response-id counter and the
\* dice queue as instance attributes
bot_of(c) == c

\* the bot calls a test with two clients makes directly
TwoClientCalls == {Call("sendDice", [chat_id |-> UserIdBase])}

\* the text a test with two clients sends
TwoClientTexts == {<<"h", "i">>}

\* test code calls the second client's bot: await second.bot.<method>(...)
second_bot_request(call) ==
    /\ delivery.pc = "idle"
    /\ second.created
    /\ capture_len(second.requests) < MaxCapture
    /\ \E o \in generate_response(call.method_name, call.params,
                   second.session_message_id_counter, second.next_dice_values,
                   second.bot_user) :
          /\ o.counter <= ResponseIdBase + MaxResponseIds
          /\ second' = [second EXCEPT
                 !.requests = add(@, CapturedRequest(call.method_name,
                                                     call.params, o.response)),
                 !.session_message_id_counter = o.counter,
                 !.next_dice_values = o.queue]
          /\ last' = Intercepted(call, o)
    /\ UNCHANGED <<transport_vars, bot_user, factory_vars, users, dispatcher,
                   delivery, engine_vars, held, rebound>>

\* second.bot.set_next_dice_value(value)
second_set_next_dice_value(value) ==
    /\ delivery.pc = "idle"
    /\ second.created
    /\ Len(second.next_dice_values) < MaxQueue
    /\ second' = [second EXCEPT !.next_dice_values =
                     set_next_dice_value(@, value)]
    /\ last' = [op |-> "set_next_dice_value", value |-> value]
    /\ UNCHANGED <<transport_vars, bot_user, factory_vars, users, dispatcher,
                   delivery, engine_vars, held, rebound>>

\* await client.bot.<method>(...) on the c-th client
client_bot_request(c, call) ==
    IF bot_of(c) = 1 THEN bot_request(call) ELSE second_bot_request(call)

\* client.bot.set_next_dice_value(value) on the c-th client
client_set_next_dice_value(c, value) ==
    IF bot_of(c) = 1 THEN bot_set_next_dice_value(value)
    ELSE second_set_next_dice_value(value)

\* client.reset() on the c-th client
client_reset(c) == IF bot_of(c) = 1 THEN reset ELSE second_reset

\* client.send_message(text, user, chat) of the i-th user on the c-th client,
\* up to the await: feed_update(bot=self._bot, update=update)
client_send_message(c, i, text) ==
    IF bot_of(c) = 1 THEN TestUser_send_message(i, text)
    ELSE second_send_message(text, users[i].user, Some(users[i].chat))

\* a handler of the c-th client's dispatcher calls the bot it was handed
client_handler_request(c) ==
    IF bot_of(c) = 1
    THEN delivery.pc = "feed_update" /\ handler_request
    ELSE delivery.pc = "feed_update_second" /\ second_handler_request

\* send_message of the c-th client returns
client_send_return(c) ==
    IF bot_of(c) = 1 THEN send_return ELSE second_send_return

\* the calls both captures hold together
captured_total ==
    capture_len(requests)
    + (IF second.created THEN capture_len(second.requests) ELSE 0)

\* the dice queue of the c-th client's bot
queue_of(c) == IF bot_of(c) = 1 THEN next_dice_values ELSE second.next_dice_values

\* a test with two clients that pre-sets the value of the next dice on either
\* bot and has that bot send the dice, delivers through both clients and resets both; the
\* run ends when the two captures hold MaxTotal calls together
NextTwoClients ==
    \/ \E b \in SecondBotIds, f \in SetupFuncs : create_second(b, f)
    \/ users = <<>> /\ create_user(None)
    \/ \E c \in Clients, call \in TwoClientCalls :
          /\ captured_total < MaxTotal
          /\ c = 2 => second.created
          /\ queue_of(c) # <<>>
          /\ client_bot_request(c, call)
    \/ \E c \in Clients, value \in DiceInputs :
          /\ c = 2 => second.created
          /\ queue_of(c) = <<>>
          /\ client_set_next_dice_value(c, value)
    \/ \E c \in Clients : client_reset(c)
    \/ \E c \in Clients, i \in 1..Len(users), text \in TwoClientTexts :
          client_send_message(c, i, text)
    \/ \E c \in Clients :
          captured_total < MaxTotal /\ client_handler_request(c)
    \/ \E c \in Clients : client_send_return(c)

SpecTwoClients == Init /\ [][NextTwoClients]_vars

\* a test that drives a TestClient through TestUser objects:
\* TestUser.send_message / send_command / click_button, and
\* TestClient.send_message called without a chat
Next ==
    \/ create_user(None)
    \/ \E i \in 1..Len(users), text \in Texts :
          \E chat \in {None, Some(users[i].chat)} :
             send_message(text, users[i].user, chat)
    \/ \E i \in 1..Len(users), command \in Commands, args \in ArgsInputs :
          send_command(command, users[i].user,
                       IF args = <<>> THEN None ELSE Some(args),
                       Some(users[i].chat))
    \/ \E i \in 1..Len(users), data \in CallbackData :
          send_callback(data, users[i].user, None)
    \/ handler_request
    \/ send_return
    \/ \E value \in DiceInputs : bot_set_next_dice_value(value)
    \/ reset_capture
    \/ bot_reset_message_counter
    \/ reset

Spec == Init /\ [][Next]_vars


\* ================================================================ claims
SendOps == {"send_message", "send_command", "send_callback"}
ClearOps == {"reset_capture", "reset"}

\* the elements of a sequence
Range(seq) == {seq[k] : k \in 1..Len(seq)}

\* TestUser.get_sent_messages of the i-th user
user_sent_messages(i) == get_sent_messages(requests, Some(users[i].chat.id))

\* TestUser.has_received_message_containing of the i-th user
user_has_received(i, text) ==
    has_message_containing(requests, text, Some(users[i].chat.id))

\* C1: the list a send_* call returns is exactly the sequence of calls
\* intercepted during that delivery, in order, and the capture store is the
\* calls captured before the delivery followed by the returned list.
C1_ReturnedSliceIsTheDelivery ==
    last.op \in SendOps =>
        /\ last.ret = last.made
        /\ requests = last.before \o last.ret

\* a delivery that made two calls returned, with a call captured before it
C1_Witness ==
    /\ last.op \in SendOps
    /\ Len(last.before) >= 1
    /\ Len(last.ret) >= 2

\* C2: the k-th id a factory counter issues since its last reset is
\* base + k - 1 (user base 100000; message, callback, update base 1; the
\* callback id is the decimal string of the number).
C2_IdsCountUpFromBase ==
    /\ \A k \in 1..Len(issued.user) : issued.user[k] = 100000 + k - 1
    /\ \A k \in 1..Len(issued.message) : issued.message[k] = 1 + k - 1
    /\ \A k \in 1..Len(issued.callback) : issued.callback[k] = Str(1 + k - 1)
    /\ \A k \in 1..Len(issued.update) : issued.update[k] = 1 + k - 1

\* two users were created with a reset between them, and after the reset two
\* deliveries, one of them a callback, have issued ids
C2_Witness ==
    /\ Len(users) = 2
    /\ users[1].user.id = users[2].user.id
    /\ Len(issued.user) = 1
    /\ Len(issued.update) = 2
    /\ Len(issued.message) = 2
    /\ Len(issued.callback) = 1

\* the range a dice value is drawn from by default, per emoji
C3_DefaultRange(emoji) ==
    IF emoji \in {"basketball", "football"} THEN 1..5
    ELSE IF emoji = "slot_machine" THEN 1..64
    ELSE 1..6

\* C3: set_next_dice_value appends at the tail of the queue; a sendDice
\* interception with a non-empty queue answers with the head and removes it;
\* with an empty queue it consumes nothing and answers within the default
\* range of its emoji; no other step changes the queue.
C3_DiceQueueIsFifo ==
    [][ /\ last'.op = "set_next_dice_value" =>
              next_dice_values' = Append(next_dice_values, last'.value)
        /\ (last'.op = "make_request" /\ last'.method_name = "sendDice") =>
              IF next_dice_values # <<>>
              THEN /\ last'.response.dice.value = Head(next_dice_values)
                   /\ next_dice_values' = Tail(next_dice_values)
              ELSE /\ next_dice_values' = <<>>
                   /\ last'.response.dice.value
                          \in C3_DefaultRange(last'.response.dice.emoji)
        /\ (/\ last'.op # "set_next_dice_value"
            /\ ~(last'.op = "make_request" /\ last'.method_name = "sendDice")) =>
              next_dice_values' = next_dice_values
      ]_vars

\* three dice were sent: the first two carry the queued 2 and 6 in that order,
\* the third was answered with the queue empty
C3_Witness ==
    /\ Len(requests) = 3
    /\ \A k \in 1..3 : requests[k].request_type = "sendDice"
    /\ requests[1].response.dice.value = 2
    /\ requests[2].response.dice.value = 6
    /\ last.op = "make_request"
    /\ ~last.queued
    /\ next_dice_values = <<>>

\* C4 as stated: any two users of the client have disjoint sent-message sets.
C4_AnyTwoUsersDisjoint ==
    \A i, j \in 1..Len(users) :
        i # j => Range(user_sent_messages(i)) \cap Range(user_sent_messages(j)) = {}

\* C4, amended: a user's sent messages all carry its own chat id; two users
\* with different chat ids have disjoint sent-message sets, and a user has
\* received a message containing t only if some sendMessage call to its own
\* chat carries a text containing t.
C4_UsersWithDistinctChatsIsolated ==
    \A i \in 1..Len(users) :
        /\ \A m \in Range(user_sent_messages(i)) :
              /\ m.request_type = "sendMessage"
              /\ m.params["chat_id"] = users[i].chat.id
        /\ \A j \in 1..Len(users) :
              users[i].chat.id # users[j].chat.id =>
                 Range(user_sent_messages(i)) \cap Range(user_sent_messages(j)) = {}
        /\ \A t \in Needles :
              user_has_received(i, t) =>
                 \E k \in 1..Len(requests) :
                    /\ requests[k].request_type = "sendMessage"
                    /\ requests[k].params["chat_id"] = users[i].chat.id
                    /\ Contains(requests[k].params["text"], t)

\* two users with different chats have both been sent a message, and a text
\* that one of them received the other did not
C4_Witness ==
    \E i, j \in 1..Len(users) :
        /\ users[i].chat.id # users[j].chat.id
        /\ user_sent_messages(i) # <<>>
        /\ user_sent_messages(j) # <<>>
        /\ \E t \in Needles : user_has_received(i, t) /\ ~user_has_received(j, t)


\* C5: after reset() the capture store is empty, the response-id counter is 1
\* and the four factory counters are at their bases; reset() changes neither
\* the dispatcher nor the users, and the delivery that follows it returns
\* exactly its own calls, which are then the whole capture store.
C5_ResetRestoresCountersAndCapture ==
    /\ [](/\ last.op = "reset" =>
                /\ requests = <<>>
                /\ session_message_id_counter = 1
                /\ user_id_counter = 100000
                /\ message_id_counter = 1
                /\ callback_id_counter = 1
                /\ update_id_counter = 1
          /\ (last.op \in SendOps /\ last.after_reset) =>
                /\ last.ret = last.made
                /\ requests = last.ret
                /\ Len(requests) = Len(last.made))
    /\ [][last'.op = "reset" => (dispatcher' = dispatcher /\ users' = users)]_vars

\* a delivery that started right after a reset returned the call it made
C5_Witness ==
    /\ last.op \in SendOps
    /\ last.after_reset
    /\ Len(last.ret) >= 1

\* C6: a reset() that directly follows a reset() changes nothing: capture
\* store, response-id counter, factory counters and dice queue are as the
\* first reset left them.
C6_ResetIsIdempotent ==
    [][(last'.op = "reset" /\ last'.again) =>
          UNCHANGED <<requests, session_message_id_counter, user_id_counter,
                      message_id_counter, callback_id_counter,
                      update_id_counter, next_dice_values>>]_vars

\* reset() was called twice in succession with users created and a dice
\* value pre-set
C6_Witness ==
    /\ last.op = "reset"
    /\ last.again
    /\ users # <<>>
    /\ next_dice_values # <<>>

\* C7: after reset() the queue of pre-set dice values is empty.
C7_ResetEmptiesDiceQueue ==
    last.op = "reset" => next_dice_values = <<>>

\* C8: make_request appends exactly one entry at the end of the capture
\* store, with the classified type, the parameters as submitted and the
\* response it returns.
C8_MakeRequestCapturesOnce ==
    [][last'.op = "make_request" =>
          /\ Len(requests') = Len(requests) + 1
          /\ SubSeq(requests', 1, Len(requests)) = requests
          /\ requests'[Len(requests')] =
                [request_type |-> method_to_request_type(last'.method_name),
                 params |-> last'.params,
                 response |-> last'.response]
      ]_vars

\* a message-producing call was intercepted with two calls already captured
C8_Witness ==
    /\ last.op = "make_request"
    /\ Len(requests) = 3
    /\ last.response.kind = "Message"

\* C9: the captured type is the method name when that is the value of a
\* RequestType member and "other" otherwise; a call with such an
\* unrecognized name is captured and answered with True.
C9_ClassificationIsTotal ==
    last.op = "make_request" =>
        LET r == requests[Len(requests)]
        IN  /\ r.request_type \in RequestTypeValues
            /\ last.method_name \in RequestTypeValues =>
                  r.request_type = last.method_name
            /\ last.method_name \notin RequestTypeValues =>
                  /\ r.request_type = "other"
                  /\ r.params = last.params
                  /\ r.response = [kind |-> "bool", value |-> TRUE]
                  /\ last.response = [kind |-> "bool", value |-> TRUE]

\* a call whose method name is no RequestType value was intercepted
C9_Witness ==
    /\ last.op = "make_request"
    /\ last.method_name = "logOut"

\* C10: every step other than reset_capture and reset leaves each recorded
\* call at its index, unchanged.
C10_AppendOnlyBetweenClears ==
    [][last'.op \notin ClearOps =>
          /\ Len(requests') >= Len(requests)
          /\ SubSeq(requests', 1, Len(requests)) = requests]_vars

\* a delivery returned after its handler appended to a non-empty store on
\* which reset_message_counter had been called
C10_Witness ==
    /\ last.op \in SendOps
    /\ Len(last.before) >= 1
    /\ Len(last.ret) >= 1
    /\ last.ret[1].response.kind = "Message"
    /\ last.ret[1].response.message_id = 1
    /\ last.before[1].response.kind = "Message"
    /\ last.before[1].response.message_id = 1

\* C11: when feed_update raises, the send_* call ends with that same
\* exception: the delivery is over without feed_update being entered again,
\* no list is returned, and the capture store holds what it held before the
\* delivery followed by the calls the handler made before it threw.
C11_FailurePropagatesUnchanged ==
    [][delivery.pc = "raising" =>
          /\ delivery'.pc = "idle"
          /\ last'.op = "raised"
          /\ last'.of = delivery.op
          /\ last'.exc = last.exc
          /\ "ret" \notin DOMAIN last'
          /\ requests' = requests
          /\ requests = delivery.before \o delivery.made]_vars

\* a click_button delivery ended with the KeyError its handler threw after
\* making a call
C11_Witness ==
    /\ last.op = "raised"
    /\ last.of = "send_callback"
    /\ last.exc = "KeyError"
    /\ Len(last.made) >= 1

\* the deliveries in flight: the running one and the suspended ones
InFlight == Len(suspended) + (IF delivery.pc = "idle" THEN 0 ELSE 1)

\* C12 as stated: at most one delivery is in flight at any time, and every
\* send_* call returns exactly the calls of its own delivery.
C12_DeliveriesNeverOverlap ==
    /\ InFlight <= 1
    /\ last.op \in SendOps => last.ret = last.made

\* C12, amended: a delivery during which no other delivery was in flight (the
\* test awaited it before starting the next) returns exactly its own calls,
\* and the capture store is the earlier calls followed by them, whether or
\* not its handler suspended.
C12_AwaitedDeliveriesDoNotOverlap ==
    (last.op \in SendOps /\ ~last.overlapped) =>
        /\ last.ret = last.made
        /\ requests = last.before \o last.ret

\* the second user's delivery ran alone after the first user's and returned
\* its own call
C12_Witness ==
    /\ last.op \in SendOps
    /\ ~last.overlapped
    /\ Len(users) = 2
    /\ Len(last.before) >= 1
    /\ Len(last.ret) >= 1
    /\ last.ret[1].params["chat_id"] # last.before[1].params["chat_id"]

\* C13: entering the context emits startup exactly once and emits no
\* shutdown; leaving it, normally or by an exception, emits shutdown exactly
\* once and no startup; no other operation emits startup, and only close()
\* emits shutdown besides.
C13_StartupAndShutdownOncePerContext ==
    [][/\ (lifecycle.ctx # "entered" /\ lifecycle'.ctx = "entered") =>
              /\ lifecycle'.startups = lifecycle.startups + 1
              /\ lifecycle'.shutdowns = lifecycle.shutdowns
       /\ (lifecycle.ctx = "entered" /\ lifecycle'.ctx # "entered") =>
              /\ lifecycle'.shutdowns = lifecycle.shutdowns + 1
              /\ lifecycle'.startups = lifecycle.startups
       /\ last'.op = "aenter" => lifecycle'.ctx = "entered"
       /\ last'.op = "aexit" => lifecycle'.ctx = "exited"
       /\ last'.op # "aenter" => lifecycle'.startups = lifecycle.startups
       /\ last'.op \notin {"aexit", "close"} =>
              lifecycle'.shutdowns = lifecycle.shutdowns
      ]_vars

\* the body was left by an exception after one entry: one startup, one shutdown
C13_Witness ==
    /\ last.op = "aexit"
    /\ last.exc_type # None
    /\ lifecycle.startups = 1
    /\ lifecycle.shutdowns = 1

\* C14: in every state, from construction on, the configuration callback has
\* been called exactly once, with the bot and the dispatcher, when one was
\* supplied, and never when none was.
C14_ConfiguredOnceAtConstruction ==
    lifecycle.setup_calls =
        IF lifecycle.setup_func = None THEN <<>>
        ELSE <<[bot |-> bot_user, dispatcher |-> create_test_dispatcher]>>

\* with a callback supplied: a close(), a reset() and a delivery right after
\* the reset have happened, and the callback has still been called once
C14_Witness ==
    /\ lifecycle.setup_func # None
    /\ Len(lifecycle.setup_calls) = 1
    /\ lifecycle.shutdowns >= 1
    /\ last.op \in SendOps
    /\ last.after_reset
    /\ Len(last.ret) >= 1

\* the kind of call each list query is about
C15_Kind(name) ==
    CASE name = "get_sent_messages" -> "sendMessage"
      [] name = "get_edited_messages" -> "editMessageText"
      [] name = "get_deleted_messages" -> "deleteMessage"
      [] name = "get_dice_sends" -> "sendDice"

\* the call has a chat_id parameter equal to c, or there is no filter
MatchesChat(r, c) ==
    c = None \/ ("chat_id" \in DOMAIN r.params /\ r.params["chat_id"] = c[1])

\* C15: each of the four list queries returns, in insertion order, the
\* captured calls of its kind, all of them with no chat filter and exactly
\* those whose chat_id parameter equals c with the filter c (0 included).
C15_ListQueriesFilterByChat ==
    last.op = "list_query" =>
        last.result =
            SelectSeq(requests,
                LAMBDA r : /\ r.request_type = C15_Kind(last.name)
                           /\ MatchesChat(r, last.chat_id))

\* with deleteMessage calls to chat 0 and to another chat captured,
\* get_deleted_messages(0) returned the one to chat 0
C15_Witness ==
    /\ last.op = "list_query"
    /\ last.name = "get_deleted_messages"
    /\ last.chat_id = Some(0)
    /\ Len(last.result) = 1
    /\ Len(get_by_type(requests, "deleteMessage")) = 2

\* C16: has_message_containing(t, c) is true exactly when some captured
\* sendMessage call matching c has a text parameter of which t is a
\* substring, the empty t and the empty text included.
C16_HasMessageIsSubstringSearch ==
    last.op = "has_message_containing" =>
        last.result =
            \E k \in 1..Len(requests) :
                /\ requests[k].request_type = "sendMessage"
                /\ MatchesChat(requests[k], last.chat_id)
                /\ "text" \in DOMAIN requests[k].params
                /\ Contains(requests[k].params["text"], last.text)

\* C17: get_last_message(c) is the captured sendMessage call matching c with
\* the greatest index, or None when there is none, whatever was captured
\* after it; get_last_request is the newest captured call, or None when the
\* store is empty.
C17_LastMessageAndLastRequest ==
    /\ last.op = "get_last_message" =>
          LET sent == {k \in 1..Len(requests) :
                          /\ requests[k].request_type = "sendMessage"
                          /\ MatchesChat(requests[k], last.chat_id)}
          IN  IF sent = {} THEN last.result = None
              ELSE \E k \in sent : /\ \A j \in sent : j <= k
                                   /\ last.result = Some(requests[k])
    /\ last.op = "get_last_request" =>
          IF requests = <<>> THEN last.result = None
          ELSE last.result = Some(requests[Len(requests)])

\* get_last_message(c) returned the second of two messages sent to chat c
\* although a call of another kind was captured after it
C17_Witness ==
    /\ last.op = "get_last_message"
    /\ last.chat_id = Some(UserIdBase)
    /\ Len(requests) = 3
    /\ last.result = Some(requests[2])
    /\ requests[1].request_type = "sendMessage"
    /\ requests[1].params["chat_id"] = UserIdBase
    /\ requests[3].request_type # "sendMessage"

\* the methods MockSession answers with a Message
MessageMethods == {"sendMessage", "editMessageText", "sendDice", "sendPhoto"}

\* C18: the counter starts at 1; the interception of sendMessage,
\* editMessageText, sendDice or sendPhoto answers with a Message whose id is
\* the counter and advances the counter by one; every other interception
\* leaves the counter alone; reset_message_counter sets it to 1 and no other
\* operation changes it.
C18_ResponseIdsCountUp ==
    /\ [](last.op = "create" => session_message_id_counter = 1)
    /\ [][/\ last'.op = "make_request" =>
                IF last'.method_name \in MessageMethods
                THEN /\ last'.response.kind = "Message"
                     /\ last'.response.message_id = session_message_id_counter
                     /\ session_message_id_counter' = session_message_id_counter + 1
                ELSE session_message_id_counter' = session_message_id_counter
          /\ last'.op = "reset_message_counter" =>
                session_message_id_counter' = 1
          /\ last'.op \notin {"make_request", "reset_message_counter"} =>
                session_message_id_counter' = session_message_id_counter
         ]_vars

\* a sendMessage, a deleteMessage and a sendDice were intercepted in that
\* order: the dice message has id 2
C18_Witness ==
    /\ last.op = "make_request"
    /\ last.method_name = "sendDice"
    /\ last.response.message_id = 2
    /\ Len(requests) = 3
    /\ requests[1].request_type = "sendMessage"
    /\ requests[1].response.message_id = 1
    /\ requests[2].request_type = "deleteMessage"

\* the sender and the conversation of the event a delivery carries
event_sender(update) ==
    IF update.message # None THEN update.message[1].from_user
    ELSE update.callback_query[1].from_user

event_chat(update) ==
    IF update.message # None THEN update.message[1].chat
    ELSE update.callback_query[1].message.chat

\* C19: send_message, send_command and click_button of a TestUser start a
\* delivery whose event has the user's identity as its sender and the user's
\* bound chat as its conversation, also for a chat whose id is not the
\* user's id and for click_button without a message.
C19_TestUserInjectsBoundChat ==
    [][\A i \in 1..Len(users) :
          (\/ \E text \in Texts : TestUser_send_message(i, text)
           \/ \E command \in Commands : TestUser_send_command(i, command, None)
           \/ \E data \in CallbackData :
                 \E message \in {None, Some(button_message(i))} :
                    TestUser_click_button(i, data, message))
          => /\ event_sender(delivery'.update) = users[i].user
             /\ event_chat(delivery'.update).id = users[i].chat.id
      ]_vars

\* C20: TestClient.send_message(T, U) without a chat delivers T from U in the
\* chat whose id is U's id, and such a delivery to the handler that answers
\* "You said: T" returns exactly one call, a sendMessage with that text to
\* that chat, which is all the delivery added to the capture store.
C20_EchoRoundTrip ==
    [][/\ \A i \in 1..Len(users), text \in Texts :
             send_message(text, users[i].user, None) =>
                /\ delivery'.update.message[1].text = text
                /\ delivery'.update.message[1].from_user = users[i].user
                /\ delivery'.update.message[1].chat.id = users[i].user.id
       /\ (/\ delivery.pc = "feed_update"
           /\ delivery'.pc = "idle"
           /\ delivery.op = "send_message"
           /\ dispatcher.handler = "echo") =>
                LET m == delivery.update.message[1]
                IN  /\ Len(last'.ret) = 1
                    /\ last'.ret[1].request_type = "sendMessage"
                    /\ last'.ret[1].params["text"] = <<"You said: ">> \o m.text
                    /\ last'.ret[1].params["chat_id"] = m.chat.id
                    /\ requests' = delivery.before \o last'.ret
      ]_vars

\* a user bound to a chat of the test's own sent "hi" through
\* TestClient.send_message without a chat: the one answer went to the chat
\* with the user's id
C20_Witness ==
    /\ last.op = "send_message"
    /\ dispatcher.handler = "echo"
    /\ Len(last.ret) = 1
    /\ last.ret[1].params["text"] = <<"You said: ", "h", "i">>
    /\ \E i \in 1..Len(users) :
          /\ users[i].chat.id # users[i].user.id
          /\ last.ret[1].params["chat_id"] = users[i].user.id

\* the values that are valid for an emoji
C21_ValidValues(emoji) ==
    IF emoji \in {"basketball", "football"} THEN 1..5
    ELSE IF emoji = "slot_machine" THEN 1..64
    ELSE 1..6

\* C21: MessageFactory.create_dice and UpdateFactory.from_dice with an
\* explicit value v build a dice message carrying v and the emoji exactly
\* when v is valid for the emoji, and otherwise raise ValueError and build
\* nothing; with no value they never raise and the value they generate is
\* valid for the emoji.
C21_DiceValueIsValidated ==
    last.op \in {"create_dice", "from_dice"} =>
       /\ last.value # None =>
             /\ last.raised = None <=> last.value[1] \in C21_ValidValues(last.emoji)
             /\ last.raised # None =>
                   last.raised = Some("ValueError") /\ last.result = None
             /\ last.raised = None =>
                   /\ last.result # None
                   /\ last.result[1].dice = [emoji |-> last.emoji,
                                             value |-> last.value[1]]
       /\ last.value = None =>
             /\ last.raised = None
             /\ last.result # None
             /\ last.result[1].dice.emoji = last.emoji
             /\ last.result[1].dice.value \in C21_ValidValues(last.emoji)

\* UpdateFactory.from_dice was given 6 for a basketball, a value that is
\* valid for a dice but not for that emoji, and raised
C21_Witness ==
    /\ last.op = "from_dice"
    /\ last.emoji = "basketball"
    /\ last.value = Some(6)
    /\ last.raised = Some("ValueError")

\* C22: the private chat derived from an identity has the identity's id, first
\* name, last name and handle, whether or not the identity has a handle; and
\* the chat of every TestUser made by create_user has the user's id.
C22_PrivateChatCopiesIdentity ==
    /\ last.op \in {"create_private_from_user", "create_user"} =>
          /\ last.chat.type = "private"
          /\ last.chat.id = last.user.id
          /\ last.chat.first_name = last.user.first_name
          /\ last.chat.last_name = last.user.last_name
          /\ last.chat.username = last.user.username
    /\ \A i \in 1..Len(users) : users[i].chat.id = users[i].user.id

\* C23: the queue of pre-set dice values changes only by set_next_dice_value,
\* which appends at the tail, and by a sendDice interception, which removes
\* the head; reset_capture, reset_message_counter and the interception of
\* any other call leave it unchanged, and reset_capture empties the capture
\* store without changing the response-id counter.
C23_DiceQueueFrame ==
    [][/\ next_dice_values' # next_dice_values =>
             \/ /\ last'.op = "set_next_dice_value"
                /\ next_dice_values' = Append(next_dice_values, last'.value)
             \/ /\ last'.op = "make_request"
                /\ last'.method_name = "sendDice"
                /\ next_dice_values # <<>>
                /\ next_dice_values' = Tail(next_dice_values)
       /\ reset_capture =>
             /\ next_dice_values' = next_dice_values
             /\ session_message_id_counter' = session_message_id_counter
             /\ requests' = <<>>
       /\ bot_reset_message_counter => next_dice_values' = next_dice_values
       /\ \A call \in FrameCalls :
             (bot_request(call) /\ call.method_name # "sendDice") =>
                next_dice_values' = next_dice_values
      ]_vars

\* reset_capture was called with two values queued and response ids issued:
\* the queue and the counter are as they were
C23_Witness ==
    /\ last.op = "reset_capture"
    /\ next_dice_values = <<2, 6>>
    /\ session_message_id_counter > ResponseIdBase
    /\ requests = <<>>

\* C24: all_requests gives a list of the store's entries in insertion order
\* that is a copy: a list got earlier holds the same items after any later
\* add or clear, and appending to, removing from or clearing a list got from
\* it changes neither the store nor any other list, so every later query
\* answers as before.
C24_AllRequestsIsASnapshot ==
    [][/\ capture_all_requests =>
             items_of(held'[Len(held')], requests') = requests
       /\ ((\E call \in ClientCalls : bot_request(call)) \/ reset_capture) =>
             \A k \in 1..Len(held) :
                items_of(held'[k], requests') = items_of(held[k], requests)
       /\ \A k \in 1..Len(held), how \in ListMutations :
             held_mutate(k, how) =>
                /\ requests' = requests
                /\ items_of(held'[k], requests') =
                       mutated(items_of(held[k], requests), how)
                /\ \A j \in 1..Len(held) : j # k =>
                      items_of(held'[j], requests') = items_of(held[j], requests)
                /\ \A c \in {None, Some(UserIdBase)} :
                      get_sent_messages(requests', c) = get_sent_messages(requests, c)
                /\ get_last_request(requests') = get_last_request(requests)
      ]_vars

\* the test holds a list of two entries got from all_requests, the store was
\* cleared since, and the list still has its two entries
C24_Witness ==
    /\ last.op = "reset_capture"
    /\ requests = <<>>
    /\ Len(held) = 1
    /\ Len(items_of(held[1], requests)) = 2
    /\ items_of(held[1], requests)[1].request_type = "sendMessage"
    /\ items_of(held[1], requests)[2].request_type = "deleteMessage"

\* the users who sent the event of the delivery in flight
C25_Senders ==
    {i \in 1..Len(users) : users[i].user = event_sender(delivery.update)}

\* C25: change_client changes nothing but the client the user is bound to:
\* the user's identity and chat and both capture stores stay as they are.
\* From then on an action of the user is a delivery of the second client:
\* what the handlers send is added to the second client's store and to that
\* store only, the first client's store does not change while it runs, and
\* the action returns what was added.  A query of the user reads the store
\* of the client the user is bound to.
C25_ChangeClientRebindsOnlyTheSession ==
    /\ [](/\ delivery.pc = "feed_update" => C25_Senders \cap rebound = {}
          /\ delivery.pc = "feed_update_second" => C25_Senders \subseteq rebound
          /\ last.op = "user_get_sent_messages" =>
                last.result =
                   get_sent_messages(IF last.user \in rebound
                                     THEN second.requests ELSE requests,
                                     Some(users[last.user].chat.id)))
    /\ [][/\ \A i \in 1..Len(users), c \in Clients :
                change_client(i, c) =>
                   /\ users' = users
                   /\ requests' = requests
                   /\ second' = second
                   /\ (i \in rebound') <=> (c = 2)
                   /\ \A j \in 1..Len(users) :
                         j # i => ((j \in rebound') <=> (j \in rebound))
          /\ delivery.pc = "feed_update_second" =>
                /\ requests' = requests
                /\ session_message_id_counter' = session_message_id_counter
                /\ \/ second'.requests = second.requests
                   \/ /\ Len(second'.requests) = Len(second.requests) + 1
                      /\ SubSeq(second'.requests, 1, Len(second.requests))
                            = second.requests
                      /\ delivery'.made
                            = Append(delivery.made,
                                     second'.requests[Len(second'.requests)])
          /\ (delivery.pc = "feed_update_second" /\ delivery'.pc = "idle") =>
                /\ last'.ret = delivery.made
                /\ second.requests = delivery.before \o last'.ret
         ]_vars

\* a user who was answered through the first client was moved to the second
\* and answered there: the user's query gives the one answer in the second
\* client's store, sent by the second client's bot, and the first client's
\* store still holds the earlier answer
C25_Witness ==
    /\ last.op = "user_get_sent_messages"
    /\ last.user \in rebound
    /\ Len(last.result) = 1
    /\ last.result[1].response.from_user.id \in SecondBotIds
    /\ Len(get_sent_messages(requests, Some(users[last.user].chat.id))) = 1
    /\ requests[1].response.from_user.id \in BotIds

\* C26: the answer to an intercepted call is fixed by the method name and
\* the submitted parameters, whatever the capture store holds: True for
\* deleteMessage and answerCallbackQuery, the bot's identity for getMe, a
\* chat with the submitted chat_id for getChat, a member wrapping a user
\* with the submitted user_id for getChatMember, and for sendMessage and
\* editMessageText a message from the bot with the submitted text in the
\* chat with the submitted chat_id.
C26_ResponseFollowsMethodAndParams ==
    [][\A call \in BotCalls :
          bot_request(call) =>
             LET response == last'.response
                 m == call.method_name
                 params == call.params
             IN  /\ m \in {"deleteMessage", "answerCallbackQuery"} =>
                       response = True
                 /\ m = "getMe" =>
                       /\ response = bot_user
                       /\ response.id \in BotIds
                       /\ response.is_bot
                 /\ m = "getChat" =>
                       /\ response.kind = "Chat"
                       /\ response.id = params["chat_id"]
                 /\ m = "getChatMember" =>
                       /\ response.kind = "ChatMemberMember"
                       /\ response.user.id = params["user_id"]
                       /\ ~response.user.is_bot
                 /\ m \in {"sendMessage", "editMessageText"} =>
                       /\ response.kind = "Message"
                       /\ response.text = params["text"]
                       /\ "chat_id" \in DOMAIN params =>
                             response.chat.id = params["chat_id"]
                       /\ response.from_user = bot_user
      ]_vars

\* with two calls in the store already, getChatMember for user 100001 was
\* answered with a member wrapping user 100001
C26_Witness ==
    /\ last.op = "make_request"
    /\ last.method_name = "getChatMember"
    /\ last.response.user.id = UserIdBase + 1
    /\ Len(requests) = 3
    /\ requests[1].request_type = "getMe"
    /\ requests[1].response = bot_user

\* the message of the delivery that starts
C27_Message == delivery'.update.message[1]

\* C27: each send_forwarded_* starts one delivery of one message of the
\* sender with the given text, stamped with the origin variant of its name
\* carrying the fields given, and returns exactly the calls captured during
\* that delivery.
C27_ForwardedDeliveries ==
    [][/\ \A i \in 1..Len(users), text \in Texts :
          /\ \A j \in 1..Len(users) :
                send_forwarded_from_user(text, users[i].user, users[j].user) =>
                   /\ C27_Message.forward_origin.type = "user"
                   /\ C27_Message.forward_origin.sender_user = users[j].user
                   /\ C27_Message.text = text
                   /\ C27_Message.from_user = users[i].user
                   /\ update_id_counter' = update_id_counter + 1
          /\ \A name \in SenderNames :
                send_forwarded_from_hidden_user(text, users[i].user, name) =>
                   /\ C27_Message.forward_origin.type = "hidden_user"
                   /\ C27_Message.forward_origin.sender_user_name = name
                   /\ C27_Message.text = text
                   /\ C27_Message.from_user = users[i].user
                   /\ update_id_counter' = update_id_counter + 1
          /\ \A chat \in SenderChats, signature \in Signatures :
                send_forwarded_from_chat(text, users[i].user, chat, signature) =>
                   /\ C27_Message.forward_origin.type = "chat"
                   /\ C27_Message.forward_origin.sender_chat = chat
                   /\ C27_Message.forward_origin.author_signature = signature
                   /\ C27_Message.text = text
                   /\ C27_Message.from_user = users[i].user
                   /\ update_id_counter' = update_id_counter + 1
          /\ \A chat \in SenderChats, id \in ChannelMessageIds,
                signature \in Signatures :
                send_forwarded_from_channel(text, users[i].user, chat, id,
                                            signature) =>
                   /\ C27_Message.forward_origin.type = "channel"
                   /\ C27_Message.forward_origin.chat = chat
                   /\ C27_Message.forward_origin.message_id = id
                   /\ C27_Message.forward_origin.author_signature = signature
                   /\ C27_Message.text = text
                   /\ C27_Message.from_user = users[i].user
                   /\ update_id_counter' = update_id_counter + 1
       /\ (/\ delivery.pc = "feed_update"
           /\ delivery'.pc = "idle"
           /\ delivery.op \in ForwardOps) =>
             /\ last'.op = delivery.op
             /\ last'.ret = delivery.made
             /\ requests' = delivery.before \o last'.ret
      ]_vars

\* a message forwarded from a channel was delivered with one call in the
\* store already: the one answer it got is what was returned
C27_Witness ==
    /\ last.op = "send_forwarded_from_channel"
    /\ Len(last.before) = 1
    /\ Len(last.ret) = 1
    /\ last.ret[1].request_type = "sendMessage"
    /\ requests = last.before \o last.ret

\* C28: when TestClient.create has returned, the dispatcher's startup event
\* has not been emitted; it is emitted, once each time, by entering the
\* client as a context manager and by AsyncBotTestMixin.setup_client, and by
\* nothing else.
C28_CreateEmitsNoStartup ==
    /\ [](last.op = "create" => lifecycle.startups = 0)
    /\ [][/\ (context_enter \/ setup_client) =>
                lifecycle'.startups = lifecycle.startups + 1
          /\ lifecycle'.startups # lifecycle.startups =>
                last'.op \in {"aenter", "setup_client"}
         ]_vars

\* users were created and a delivery was answered on a client that was never
\* entered: no startup has been emitted
C28_Witness ==
    /\ last.op = "send_message"
    /\ Len(last.ret) >= 1
    /\ lifecycle.ctx = "created"
    /\ lifecycle.startups = 0

\* C29 as stated: shutdown is emitted only after startup, and at most once
\* for each startup.
C29_ShutdownOnlyAfterStartup ==
    lifecycle.shutdowns <= lifecycle.startups

\* C29, amended: shutdown is emitted once by every close() and once by every
\* context exit, whether or not startup was emitted, and by nothing else;
\* neither emits startup.  A context exit ends a context that was entered,
\* so its shutdown comes after the startup of that entry.
C29_ShutdownOncePerCloseOrExit ==
    /\ [](last.op = "aexit" => lifecycle.startups >= 1)
    /\ [][/\ (client_close \/ \E e \in Exceptions : context_exit(Some(e))
                           \/ context_exit(None)) =>
                /\ lifecycle'.shutdowns = lifecycle.shutdowns + 1
                /\ lifecycle'.startups = lifecycle.startups
          /\ lifecycle'.shutdowns # lifecycle.shutdowns =>
                /\ last'.op \in {"close", "aexit"}
                /\ last'.op = "aexit" =>
                      lifecycle.ctx = "entered" /\ lifecycle'.ctx = "exited"
         ]_vars

\* close() was called on a client that was created and never started: one
\* shutdown, no startup
C29_Witness ==
    /\ last.op = "close"
    /\ lifecycle.ctx = "created"
    /\ lifecycle.startups = 0
    /\ lifecycle.shutdowns = 1

\* C30: the dice value of every sendDice response is valid for the emoji of
\* the response, whether it was taken from the queue of pre-set values or
\* drawn at random.
C30_SentDiceValueIsValid ==
    (last.op = "make_request" /\ last.method_name = "sendDice") =>
       last.response.dice.value \in C21_ValidValues(last.response.dice.emoji)

\* C31: a call of MessageFactory.create_dice or UpdateFactory.from_dice that
\* raises for an out-of-range value leaves the state as it was: the message-id
\* counter and the update-id counter keep their values, so the next
\* auto-generated message id is the one the failed call found.
C31_RejectedDiceLeavesCounters ==
    [][((\E i \in 1..Len(users), value \in DiceValueInputs, emoji \in DiceEmojis :
            \/ factory_create_dice(i, value, emoji)
            \/ factory_from_dice(i, value, emoji))
        /\ last'.raised # None)
       => /\ message_id_counter' = message_id_counter
          /\ update_id_counter' = update_id_counter
          /\ UNCHANGED <<transport_vars, bot_user, user_id_counter,
                         callback_id_counter, users, dispatcher>>]_vars

\* the four factory counters
C32_Counters ==
    <<user_id_counter, message_id_counter, callback_id_counter,
      update_id_counter>>

\* C32: a delivery advances the factory counters by a fixed amount.
\* send_message and send_command take one message id and one update id and
\* leave the user-id and callback-id counters alone; send_callback takes one
\* callback id and one update id, and one message id when no message is given
\* (the placeholder) and none when one is given; the bot calls the handlers
\* make during the delivery and the return of the delivery change none of the
\* four counters, so while a delivery is in flight the update-id counter stays
\* one above the id of the update being delivered.
C32_DeliveryAdvancesCountersByFixedAmount ==
    /\ [](delivery.pc = "feed_update" =>
             update_id_counter = delivery.update.update_id + 1)
    /\ [][/\ ((\E i \in 1..Len(users), text \in Texts :
                  \/ TestUser_send_message(i, text)
                  \/ send_message(text, users[i].user, None))
              \/ (\E i \in 1..Len(users), command \in Commands :
                     TestUser_send_command(i, command, None)))
             => C32_Counters' = <<user_id_counter, message_id_counter + 1,
                                  callback_id_counter, update_id_counter + 1>>
          /\ (\E i \in 1..Len(users), data \in CallbackData :
                 TestUser_click_button(i, data, None))
             => C32_Counters' = <<user_id_counter, message_id_counter + 1,
                                  callback_id_counter + 1, update_id_counter + 1>>
          /\ (\E i \in 1..Len(users), data \in CallbackData :
                 TestUser_click_button(i, data, Some(button_message(i))))
             => C32_Counters' = <<user_id_counter, message_id_counter,
                                  callback_id_counter + 1, update_id_counter + 1>>
          /\ (handler_request \/ send_return) => C32_Counters' = C32_Counters
       ]_vars

\* a click on a button of a message the test supplied was delivered, the
\* handler called the bot during it, and the message-id counter is still at
\* its base while one callback id and one update id were taken
C32_Witness ==
    /\ last.op = "send_callback"
    /\ last.made # <<>>
    /\ message_id_counter = IdBase
    /\ callback_id_counter = IdBase + 1
    /\ update_id_counter = IdBase + 1

\* the counter behind a builder, and the id it gives next
C33_Counter(builder) ==
    CASE builder = "user" -> user_id_counter
      [] builder = "message" -> message_id_counter
      [] builder = "callback" -> callback_id_counter
      [] builder = "update" -> update_id_counter

C33_NextId(builder) ==
    IF builder = "callback" THEN Str(callback_id_counter)
    ELSE C33_Counter(builder)

\* C33: a builder called with an id of the caller's (user_id, message_id,
\* callback_id, update_id) uses that id and leaves every counter as it was,
\* so the id generated next is what it would have been without the call; a
\* builder called without one uses the counter's value and advances that
\* counter by one.
C33_ExplicitIdLeavesCounter ==
    [][\A builder \in {"user", "message", "callback", "update"} :
          (last'.op = "build" /\ last'.builder = builder) =>
             /\ last'.given # None =>
                   /\ last'.id = last'.given[1]
                   /\ UNCHANGED <<user_id_counter, message_id_counter,
                                  callback_id_counter, update_id_counter>>
                   /\ C33_NextId(builder)' = C33_NextId(builder)
             /\ last'.given = None =>
                   /\ last'.id = C33_NextId(builder)
                   /\ C33_Counter(builder)' = C33_Counter(builder) + 1
      ]_vars

\* an id the counter generated equals an id that was passed to the same
\* builder earlier, with no reset in between
C33_Witness ==
    /\ last.op = "build"
    /\ last.given = None
    /\ <<last.builder, last.id>> \in last.supplied

\* the users created since the counters were last reset, by either client
C34_UsersSinceReset == (Len(users) - Len(issued.user) + 1) .. Len(users)

\* C34: the four factory counters are one set for every TestClient of the
\* process.  The ids generated through either client since the last reset
\* form one sequence from the base, so they are pairwise distinct and two
\* users created since then have different ids whichever clients made them;
\* reset() on either client and reset_factories() put all four counters back
\* to their bases for both clients.
C34_CountersSharedByClients ==
    /\ [](/\ \A k \in 1..Len(issued.user) : issued.user[k] = UserIdBase + k - 1
          /\ \A k \in 1..Len(issued.message) : issued.message[k] = IdBase + k - 1
          /\ \A k \in 1..Len(issued.callback) :
                issued.callback[k] = Str(IdBase + k - 1)
          /\ \A k \in 1..Len(issued.update) : issued.update[k] = IdBase + k - 1
          /\ user_id_counter = UserIdBase + Len(issued.user)
          /\ message_id_counter = IdBase + Len(issued.message)
          /\ callback_id_counter = IdBase + Len(issued.callback)
          /\ update_id_counter = IdBase + Len(issued.update)
          /\ \A i, j \in C34_UsersSinceReset :
                i # j => users[i].user.id # users[j].user.id)
    /\ [][(reset \/ second_reset \/ reset_factories) =>
             /\ user_id_counter' = UserIdBase
             /\ message_id_counter' = IdBase
             /\ callback_id_counter' = IdBase
             /\ update_id_counter' = IdBase]_vars

\* the first client made a user and reset, and the user the second client
\* made next has the same id
C34_Witness ==
    /\ Len(users) = 2
    /\ 1 \notin rebound
    /\ 2 \in rebound
    /\ last.op = "create_user"
    /\ last.client = 2
    /\ last.after = "reset"
    /\ users[1].user.id = users[2].user.id

\* an operation on the c-th client: a direct bot call, set_next_dice_value,
\* reset, or a step of a delivery (its start, a bot call of a handler, its
\* return)
C35_OperationOn(c) ==
    \/ \E call \in TwoClientCalls : client_bot_request(c, call)
    \/ \E value \in DiceInputs : client_set_next_dice_value(c, value)
    \/ client_reset(c)
    \/ \E i \in 1..Len(users), text \in TwoClientTexts :
          client_send_message(c, i, text)
    \/ client_handler_request(c)
    \/ client_send_return(c)

\* C35: the capture store, the response-id counter and the dice queue belong
\* to one TestClient.  No operation on the first client changes the second
\* client's store, counter or queue, and no operation on the second client
\* changes the first client's.
C35_TransportScopedToClient ==
    [][/\ C35_OperationOn(1) =>
             (second.created =>
                 /\ second'.requests = second.requests
                 /\ second'.session_message_id_counter =
                       second.session_message_id_counter
                 /\ second'.next_dice_values = second.next_dice_values)
       /\ C35_OperationOn(2) =>
             UNCHANGED <<requests, session_message_id_counter,
                         next_dice_values>>]_vars

\* both clients hold captured calls and a queued dice value, and the second
\* client has just answered a dice call from its own queue while the first
\* client's queue still holds its value
C35_Witness ==
    /\ second.created
    /\ requests # <<>>
    /\ next_dice_values = <<2>>
    /\ second.requests # <<>>
    /\ last.op = "make_request"
    /\ last.method_name = "sendDice"
    /\ last.response.dice.value = 6
    /\ second.requests[Len(second.requests)].response = last.response

\* the sum of count_by_type over a set of kinds
RECURSIVE C36_SumOfCounts(_)
C36_SumOfCounts(kinds) ==
    IF kinds = {} THEN 0
    ELSE LET k == CHOOSE x \in kinds : TRUE
         IN  count_by_type(requests, k) + C36_SumOfCounts(kinds \ {k})

\* C36: in every state of the capture store, count_by_type(k) is the length
\* of get_by_type(k), which is the number of captured calls of kind k, for
\* every RequestType member k; every captured call is of exactly one kind; and
\* the counts of all the kinds add up to len(capture).
C36_CountsPartitionTheCapture ==
    /\ \A k \in RequestTypeValues :
          /\ count_by_type(requests, k) = Len(get_by_type(requests, k))
          /\ count_by_type(requests, k) =
                Cardinality({n \in 1..Len(requests) :
                                requests[n].request_type = k})
    /\ \A n \in 1..Len(requests) :
          Cardinality({k \in RequestTypeValues :
                          requests[n] \in Range(get_by_type(requests, k))}) = 1
    /\ C36_SumOfCounts(RequestTypeValues) = capture_len(requests)

\* the store holds two calls of one kind and a call with an unrecognized
\* method name
C36_Witness ==
    /\ capture_len(requests) = 3
    /\ count_by_type(requests, SEND_MESSAGE) = 2
    /\ count_by_type(requests, RequestType_OTHER) = 1

=============================================================================
